---- MODULE Spec2Model ----
(***************************************************************************)
(* invogen: the event-sourced client ledger.                               *)
(*                                                                         *)
(* The registry of clients is a fold (clients.rs from_events/apply_event)  *)
(* over a log of events; each client validates the updates applied to it   *)
(* (clients.rs Client::update).  Dates are day numbers; an ordered map     *)
(* (BTreeMap) is the sequence of its <<key, value>> entries in ascending   *)
(* key order, which is the order the map iterates in.                      *)
(***************************************************************************)
EXTENDS Integers, Sequences, FiniteSets, TLC

\* ------------------------------------------------------------------ bounds
MaxEvents == 4

MaxNum == 2

MaxDate == 2

\* the period of an invoice item starts on one of FromDays consecutive days
\* and lasts up to MaxSpan days more, or a leap year more
FromDays == 91
MaxSpan == 45

\* the history file holds at most MaxLog events, and an invoice command is
\* given at most MaxItems items
MaxLog == 5
MaxItems == 2

\* the whole calendar months of MaxYears years are billed as well
MaxYears == 3

\* from_events of run.rs folds logs of at most MaxRun events
MaxRun == 2

\* a period of whole calendar months covers at most MaxMonths of them
MaxMonths == 14

\* ------------------------------------------------------------ input values
Keys == {"acme", "innotech"}

Names == {"Acme", "Innotech"}

Addresses == {"123 St", "Some Place"}

ServiceNames == {"consulting"}

Dates == 1..MaxDate

InvoiceNumbers == 0..MaxNum

Rates == {[amount |-> 1000, per |-> "Month"], [amount |-> 1500, per |-> "Month"]}

\* no tax, or TaxRate::new("GST", 5): 5 hundredths
TaxLists == {<<>>, <<[name |-> "GST", rate |-> [n |-> 1, d |-> 20]]>>}

\* ------------------------------------------------------- Option and Result
None == [some |-> FALSE]

Some(x) == [some |-> TRUE, val |-> x]

Ok == [ok |-> TRUE]

Err(e) == [ok |-> FALSE, err |-> e]

\* ------------------------------------------------------------ ordered maps
BTreeMap_new == <<>>

BTreeMap_len(m) == Len(m)

BTreeMap_keys(m) == {m[i][1] : i \in DOMAIN m}

\* insert: the entry replaces one stored under the same key and is placed
\* in key order
BTreeMap_insert(m, k, v) ==
    LET below == SelectSeq(m, LAMBDA e : e[1] < k)
        above == SelectSeq(m, LAMBDA e : e[1] > k)
    IN  below \o <<<<k, v>>>> \o above

BTreeMap_get(m, k) ==
    LET hit == SelectSeq(m, LAMBDA e : e[1] = k)
    IN  IF hit = <<>> THEN None ELSE Some(hit[1][2])

\* range(..=date): the entries whose key is at most date, in key order
BTreeMap_range_to(m, date) == SelectSeq(m, LAMBDA e : e[1] <= date)

\* next_back() of a fresh double-ended iterator: its last entry
next_back(s) == IF s = <<>> THEN None ELSE Some(s[Len(s)])

\* ------------------------------------------------------------------ Client
Invoice_new(number, service) ==
    [number |-> number, service |-> service, paid |-> None]

\* mutant: the client is keyed by its name
Client_new_keyed_by_name(key, name, address) ==
    [key |-> name, name |-> name, address |-> address,
     rates |-> BTreeMap_new, invoices |-> BTreeMap_new,
     taxes |-> BTreeMap_new, past_services |-> {}]

Client_new(key, name, address) ==
    [key |-> key, name |-> name, address |-> address,
     rates |-> BTreeMap_new, invoices |-> BTreeMap_new,
     taxes |-> BTreeMap_new, past_services |-> {}]

next_invoice_num(c) == BTreeMap_len(c.invoices) + 1

\* mutant: the range excludes the date asked for, range(..date)
rate_as_of_exclusive(c, date) ==
    LET last == next_back(BTreeMap_range_to(c.rates, date - 1))
    IN  IF last.some THEN Some(last.val[2]) ELSE None

rate_as_of(c, date) ==
    LET last == next_back(BTreeMap_range_to(c.rates, date))
    IN  IF last.some THEN Some(last.val[2]) ELSE None

\* Client::taxes_as_of of clients.rs: the tax rates in force at date, an
\* empty Vec when none is
Client_taxes_as_of(c, date) ==
    LET last == next_back(BTreeMap_range_to(c.taxes, date))
    IN  IF last.some THEN last.val[2] ELSE <<>>

\* mutant: the range excludes the date asked for, range(..date)
as_of_before(h, date) ==
    LET last == next_back(BTreeMap_range_to(h.history, date - 1))
    IN  IF last.some THEN Some(last.val[2]) ELSE None

\* Historical::as_of
as_of(h, date) ==
    LET last == next_back(BTreeMap_range_to(h.history, date))
    IN  IF last.some THEN Some(last.val[2]) ELSE None

\* the updates of one client
Updates ==
    [type : {"Address"}, addr : Addresses]
    \cup [type : {"Name"}, name : Names]
    \cup [type : {"Rate"}, effective : Dates, rate : Rates]
    \cup [type : {"Invoiced"},
          invoice : {Invoice_new(n, s) : n \in InvoiceNumbers, s \in ServiceNames}]
    \cup [type : {"Paid"}, num : InvoiceNumbers, when : Dates]
    \cup [type : {"Taxes"}, effective : Dates, taxes : TaxLists]

\* The arms of Client::update: each gives the client afterwards and the
\* Result returned.
\* mutant: the address is written over the name as well
update_Address_and_name(c, addr) ==
    [client |-> [c EXCEPT !.address = addr, !.name = addr], result |-> Ok]

update_Address(c, addr) ==
    [client |-> [c EXCEPT !.address = addr], result |-> Ok]

update_Name(c, name) ==
    [client |-> [c EXCEPT !.name = name], result |-> Ok]

\* mutant: a rate already stored for the date is kept (entry().or_insert)
update_Rate_or_insert(c, effective, rate) ==
    [client |->
        IF effective \in BTreeMap_keys(c.rates) THEN c
        ELSE [c EXCEPT !.rates = BTreeMap_insert(@, effective, rate)],
     result |-> Ok]

update_Rate(c, effective, rate) ==
    [client |-> [c EXCEPT !.rates = BTreeMap_insert(@, effective, rate)],
     result |-> Ok]

\* mutant: the sequence check is missing
update_Invoiced_unchecked(c, invoice) ==
    [client |->
        [c EXCEPT !.invoices = BTreeMap_insert(@, invoice.number, invoice),
                  !.past_services = @ \cup {invoice.service}],
     result |-> Ok]

\* mutant: only numbers beyond the next one are rejected
update_Invoiced_upto(c, invoice) ==
    IF invoice.number > next_invoice_num(c)
    THEN [client |-> c,
          result |-> Err([kind |-> "InvoiceOutOfSequence",
                          current |-> BTreeMap_len(c.invoices),
                          found |-> invoice.number])]
    ELSE [client |->
            [c EXCEPT !.invoices = BTreeMap_insert(@, invoice.number, invoice),
                      !.past_services = @ \cup {invoice.service}],
          result |-> Ok]

\* mutant: the number is compared with the count of invoices, not the next number
update_Invoiced_count(c, invoice) ==
    IF invoice.number # BTreeMap_len(c.invoices)
    THEN [client |-> c,
          result |-> Err([kind |-> "InvoiceOutOfSequence",
                          current |-> BTreeMap_len(c.invoices),
                          found |-> invoice.number])]
    ELSE [client |->
            [c EXCEPT !.invoices = BTreeMap_insert(@, invoice.number, invoice),
                      !.past_services = @ \cup {invoice.service}],
          result |-> Ok]

update_Invoiced(c, invoice) ==
    IF invoice.number # next_invoice_num(c)
    THEN [client |-> c,
          result |-> Err([kind |-> "InvoiceOutOfSequence",
                          current |-> BTreeMap_len(c.invoices),
                          found |-> invoice.number])]
    ELSE [client |->
            [c EXCEPT !.invoices = BTreeMap_insert(@, invoice.number, invoice),
                      !.past_services = @ \cup {invoice.service}],
          result |-> Ok]

\* mutant: the date is written before the already-paid check
update_Paid_written_first(c, num, when) ==
    LET found == BTreeMap_get(c.invoices, num)
    IN  IF found.some
        THEN [client |->
                [c EXCEPT !.invoices =
                    BTreeMap_insert(@, num, [found.val EXCEPT !.paid = Some(when)])],
              result |->
                IF found.val.paid.some
                THEN Err([kind |-> "AlreadyPaid", client |-> c.key, number |-> num])
                ELSE Ok]
        ELSE [client |-> c,
              result |-> Err([kind |-> "PaidOutOfSequence",
                              client |-> c.key, number |-> num])]

\* mutant: a Paid update for a missing invoice is accepted and does nothing
update_Paid_lenient(c, num, when) ==
    LET found == BTreeMap_get(c.invoices, num)
    IN  IF found.some
        THEN IF found.val.paid.some
             THEN [client |-> c,
                   result |-> Err([kind |-> "AlreadyPaid",
                                   client |-> c.key, number |-> num])]
             ELSE [client |->
                     [c EXCEPT !.invoices =
                        BTreeMap_insert(@, num, [found.val EXCEPT !.paid = Some(when)])],
                   result |-> Ok]
        ELSE [client |-> c, result |-> Ok]

\* mutant: the already-paid check is missing
update_Paid_again(c, num, when) ==
    LET found == BTreeMap_get(c.invoices, num)
    IN  IF found.some
        THEN [client |->
                [c EXCEPT !.invoices =
                    BTreeMap_insert(@, num, [found.val EXCEPT !.paid = Some(when)])],
              result |-> Ok]
        ELSE [client |-> c,
              result |-> Err([kind |-> "PaidOutOfSequence",
                              client |-> c.key, number |-> num])]

\* get_mut(num) and the assignment through it: the entry under num is
\* replaced in place
update_Paid(c, num, when) ==
    LET found == BTreeMap_get(c.invoices, num)
    IN  IF found.some
        THEN IF found.val.paid.some
             THEN [client |-> c,
                   result |-> Err([kind |-> "AlreadyPaid",
                                   client |-> c.key, number |-> num])]
             ELSE [client |->
                     [c EXCEPT !.invoices =
                        BTreeMap_insert(@, num, [found.val EXCEPT !.paid = Some(when)])],
                   result |-> Ok]
        ELSE [client |-> c,
              result |-> Err([kind |-> "PaidOutOfSequence",
                              client |-> c.key, number |-> num])]

\* mutant: the taxes set reopen the invoices
update_Taxes_reopening(c, effective, taxes) ==
    [client |->
        [c EXCEPT !.taxes = BTreeMap_insert(@, effective, taxes),
                  !.invoices =
                      [i \in DOMAIN @ |-> <<@[i][1], [@[i][2] EXCEPT !.paid = None]>>]],
     result |-> Ok]

update_Taxes(c, effective, taxes) ==
    [client |-> [c EXCEPT !.taxes = BTreeMap_insert(@, effective, taxes)],
     result |-> Ok]

\* Client::update
update(c, u) ==
    CASE u.type = "Address" -> update_Address(c, u.addr)
      [] u.type = "Name" -> update_Name(c, u.name)
      [] u.type = "Rate" -> update_Rate(c, u.effective, u.rate)
      [] u.type = "Invoiced" -> update_Invoiced(c, u.invoice)
      [] u.type = "Paid" -> update_Paid(c, u.num, u.when)
      [] u.type = "Taxes" -> update_Taxes(c, u.effective, u.taxes)

\* ---------------------------------------------------------------- registry
Changes ==
    [type : {"Added"}, name : Names, address : Addresses]
    \cup [type : {"Updated"}, update : Updates]
    \cup [type : {"Removed"}]

Events == [key : Keys, change : Changes]

Clients_new == <<>>

\* the registry without key k
Clients_remove(clients, k) == [x \in DOMAIN clients \ {k} |-> clients[x]]

\* mutant: Removed empties the registry
apply_event_clear(clients, event) ==
    LET key == event.key
        change == event.change
    IN  CASE change.type = "Added" ->
                [clients |-> (key :> Client_new(key, change.name, change.address))
                              @@ clients,
                 dropped |-> None]
          [] change.type = "Updated" ->
                IF key \in DOMAIN clients
                THEN LET r == update(clients[key], change.update)
                     IN  [clients |-> [clients EXCEPT ![key] = r.client],
                          dropped |-> Some(r.result)]
                ELSE [clients |-> clients, dropped |-> None]
          [] change.type = "Removed" ->
                [clients |-> Clients_new, dropped |-> None]

\* mutant: Added keeps a client the key already holds
apply_event_keep(clients, event) ==
    LET key == event.key
        change == event.change
    IN  CASE change.type = "Added" ->
                [clients |-> clients
                              @@ (key :> Client_new(key, change.name, change.address)),
                 dropped |-> None]
          [] change.type = "Updated" ->
                IF key \in DOMAIN clients
                THEN LET r == update(clients[key], change.update)
                     IN  [clients |-> [clients EXCEPT ![key] = r.client],
                          dropped |-> Some(r.result)]
                ELSE [clients |-> clients, dropped |-> None]
          [] change.type = "Removed" ->
                [clients |-> Clients_remove(clients, key), dropped |-> None]

\* mutant: an update of an absent key creates the client
apply_event_upsert(clients, event) ==
    LET key == event.key
        change == event.change
    IN  CASE change.type = "Added" ->
                [clients |-> (key :> Client_new(key, change.name, change.address))
                              @@ clients,
                 dropped |-> None]
          [] change.type = "Updated" ->
                LET c == IF key \in DOMAIN clients THEN clients[key]
                         ELSE Client_new(key, "", "")
                    r == update(c, change.update)
                IN  [clients |-> (key :> r.client) @@ clients,
                     dropped |-> Some(r.result)]
          [] change.type = "Removed" ->
                [clients |-> Clients_remove(clients, key), dropped |-> None]

\* mutant: Removed leaves the registry alone
apply_event_noremove(clients, event) ==
    LET key == event.key
        change == event.change
    IN  CASE change.type = "Added" ->
                [clients |-> (key :> Client_new(key, change.name, change.address))
                              @@ clients,
                 dropped |-> None]
          [] change.type = "Updated" ->
                IF key \in DOMAIN clients
                THEN LET r == update(clients[key], change.update)
                     IN  [clients |-> [clients EXCEPT ![key] = r.client],
                          dropped |-> Some(r.result)]
                ELSE [clients |-> clients, dropped |-> None]
          [] change.type = "Removed" ->
                [clients |-> clients, dropped |-> None]

\* apply_event: the registry afterwards, and the Result of the update call,
\* which the function drops (None when it called no update)
apply_event(clients, event) ==
    LET key == event.key
        change == event.change
    IN  CASE change.type = "Added" ->
                [clients |-> (key :> Client_new(key, change.name, change.address))
                              @@ clients,
                 dropped |-> None]
          [] change.type = "Updated" ->
                IF key \in DOMAIN clients
                THEN LET r == update(clients[key], change.update)
                     IN  [clients |-> [clients EXCEPT ![key] = r.client],
                          dropped |-> Some(r.result)]
                ELSE [clients |-> clients, dropped |-> None]
          [] change.type = "Removed" ->
                [clients |-> Clients_remove(clients, key), dropped |-> None]

\* client(): lookup of a key in the registry
client(clients, key) ==
    IF key \in DOMAIN clients
    THEN [ok |-> TRUE, val |-> clients[key]]
    ELSE Err([kind |-> "NotFound", key |-> key])

\* ---------------------------------------------------------------- calendar
\* A NaiveDate is the number of days since 1 January of Epoch.year, a Sunday
\* (num_days_from_monday 6), so Dates are 2 and 3 January 2023.
Epoch == [year |-> 2023, weekday |-> 6]

is_leap_year(y) == (y % 4 = 0 /\ y % 100 # 0) \/ y % 400 = 0

days_in_year(y) == IF is_leap_year(y) THEN 366 ELSE 365

days_in_month(y, m) ==
    CASE m = 2 -> IF is_leap_year(y) THEN 29 ELSE 28
      [] m \in {4, 6, 9, 11} -> 30
      [] OTHER -> 31

RECURSIVE days_before_year(_)
days_before_year(y) ==
    IF y <= Epoch.year THEN 0
    ELSE days_before_year(y - 1) + days_in_year(y - 1)

RECURSIVE days_before_month(_, _)
days_before_month(y, m) ==
    IF m <= 1 THEN 0
    ELSE days_before_month(y, m - 1) + days_in_month(y, m - 1)

\* NaiveDate::from_ymd_opt
from_ymd(y, m, d) == days_before_year(y) + days_before_month(y, m) + (d - 1)

RECURSIVE year_from(_, _)
year_from(n, y) ==
    IF n < days_in_year(y) THEN y ELSE year_from(n - days_in_year(y), y + 1)

\* Datelike::year, Datelike::month, Datelike::day
year(date) == year_from(date, Epoch.year)

RECURSIVE month_from(_, _, _)
month_from(y, n, m) ==
    IF n < days_in_month(y, m) THEN m
    ELSE month_from(y, n - days_in_month(y, m), m + 1)

month(date) == month_from(year(date), date - days_before_year(year(date)), 1)

day(date) == date - from_ymd(year(date), month(date), 1) + 1

\* Datelike::weekday().num_days_from_monday()
num_days_from_monday(date) == (date + Epoch.weekday) % 7

\* Datelike::with_day, for a day the month has
with_day(date, d) == from_ymd(year(date), month(date), d)

\* NaiveDate::checked_add_months: the same day of the month k months later,
\* or the last day of that month when it is shorter
checked_add_months(date, k) ==
    LET m0 == (month(date) - 1) + k
        y  == year(date) + (m0 \div 12)
        m  == (m0 % 12) + 1
        d  == IF day(date) > days_in_month(y, m)
              THEN days_in_month(y, m) ELSE day(date)
    IN  from_ymd(y, m, d)

checked_sub_days(date, n) == date - n

checked_add_days(date, n) == date + n

\* DateBoundaries for NaiveDate
start_of_month(date) == with_day(date, 1)

end_of_month(date) ==
    checked_sub_days(with_day(checked_add_months(date, 1), 1), 1)

start_of_week(date) == checked_sub_days(date, num_days_from_monday(date))

end_of_week(date) == checked_add_days(date, 6 - num_days_from_monday(date))

\* ----------------------------------------------------------------- Decimal
\* A Decimal is the fraction n/d in lowest terms with d > 0.  rust_decimal
\* keeps 28 significant digits, more than any quotient below needs to tell
\* two proration formulas apart, so quotients are kept exact.
RECURSIVE gcd(_, _)
gcd(a, b) == IF b = 0 THEN a ELSE gcd(b, a % b)

abs(i) == IF i < 0 THEN -i ELSE i

Decimal_norm(n, d) ==
    LET g == gcd(abs(n), d)
    IN  [n |-> n \div g, d |-> d \div g]

Decimal_from(i) == [n |-> i, d |-> 1]

Decimal_add(a, b) == Decimal_norm(a.n * b.d + b.n * a.d, a.d * b.d)

Decimal_mul(a, b) == Decimal_norm(a.n * b.n, a.d * b.d)

\* division by a positive Decimal
Decimal_div(a, b) == Decimal_norm(a.n * b.d, a.d * b.n)

\* mutant: a tie goes up (MidpointAwayFromZero)
round_dp_2_half_up(a) ==
    LET q == (a.n * 100) \div a.d
        r == (a.n * 100) % a.d
    IN  Decimal_norm(IF 2 * r >= a.d THEN q + 1 ELSE q, 100)

\* Decimal::round_dp_with_strategy(dp = 2, MidpointNearestEven) of a
\* non-negative Decimal: the nearest multiple of 1/100, a tie going to the
\* even one
round_dp_2(a) ==
    LET q == (a.n * 100) \div a.d
        r == (a.n * 100) % a.d
        up == 2 * r > a.d \/ (2 * r = a.d /\ q % 2 = 1)
    IN  Decimal_norm(IF up THEN q + 1 ELSE q, 100)

\* ----------------------------------------------------------------- billing
Period_new(from, until) == [from |-> from, until |-> until]

\* NaiveDate::iter_days().take_while(|d| d <= until)
iter_days_until(from, until) == from..until

\* NaiveDate::iter_weeks().take_while(|d| d <= until): every seventh day
iter_weeks_until(from, until) == { d \in from..until : (d - from) % 7 = 0 }

\* mutant: Saturdays are working days
working_days_with_saturdays(p) ==
    Decimal_from(Cardinality({ d \in iter_days_until(p.from, p.until) :
                                 num_days_from_monday(d) < 6 }))

\* Period::working_days: the Monday-to-Friday days of from ..= until
working_days(p) ==
    Decimal_from(Cardinality({ d \in iter_days_until(p.from, p.until) :
                                 num_days_from_monday(d) < 5 }))

\* What a function returning a Decimal can do: return one (Value), abort the
\* process (Panic), or return a number 2^32 * times too large (Wrapped)
Value(v) == [kind |-> "value", val |-> v]

Panic == [kind |-> "panic"]

Wrapped(v, times) == [kind |-> "wrapped", val |-> v, times |-> times]

\* u32 arithmetic of `a - b + 1`: a build with overflow checks panics at the
\* subtraction when a < b, one without wraps it modulo 2^32
u32_sub_add_1(a, b) ==
    IF a >= b THEN {Value(a - b + 1)}
    ELSE {Panic, IF a - b + 1 = 0 THEN Value(0) ELSE Wrapped(a - b + 1, 1)}

\* chrono::Datelike::month as the fn(&NaiveDate) -> u32 handed to
\* count_distinct, on the two dates it is called with
month_of(p) == [d \in {p.from, p.until} |-> month(d)]

\* mutant: the months between the two dates, without the + 1
count_distinct_between(p, f) ==
    IF f[p.until] >= f[p.from] THEN {Value(f[p.until] - f[p.from])}
    ELSE {Panic, Wrapped(f[p.until] - f[p.from], 1)}

\* Period::count_distinct
count_distinct(p, f) == u32_sub_add_1(f[p.until], f[p.from])

\* Period::num_months with the other full_period: the month of `from` alone
num_months_from_month(p) ==
    LET full_period == Period_new(start_of_month(p.from), end_of_month(p.from))
        years == Decimal_from((year(p.until) - year(p.from)) * 12)
        ratio == Decimal_div(working_days(p), working_days(full_period))
        of(c) == Decimal_add(years, Decimal_mul(ratio, Decimal_from(c.val)))
    IN  { CASE c.kind = "value" -> Value(of(c))
            [] c.kind = "wrapped" -> Wrapped(of(c), ratio)
            [] OTHER -> Panic : c \in count_distinct(p, month_of(p)) }

\* Period::num_months
num_months(p) ==
    LET full_period == Period_new(start_of_month(p.from), end_of_month(p.until))
        years == Decimal_from((year(p.until) - year(p.from)) * 12)
        ratio == Decimal_div(working_days(p), working_days(full_period))
        of(c) == Decimal_add(years, Decimal_mul(ratio, Decimal_from(c.val)))
    IN  { CASE c.kind = "value" -> Value(of(c))
            [] c.kind = "wrapped" -> Wrapped(of(c), ratio)
            [] OTHER -> Panic : c \in count_distinct(p, month_of(p)) }

\* Period::num_weeks with the other full_period: the week of `from` alone
num_weeks_from_week(p) ==
    LET full_period == Period_new(start_of_week(p.from), end_of_week(p.from))
        distinct_weeks ==
            Decimal_from(Cardinality(iter_weeks_until(p.from, p.until)))
    IN  Decimal_div(Decimal_mul(distinct_weeks, working_days(p)),
                    working_days(full_period))

\* Period::num_weeks
num_weeks(p) ==
    LET full_period == Period_new(start_of_week(p.from), end_of_week(p.until))
        distinct_weeks ==
            Decimal_from(Cardinality(iter_weeks_until(p.from, p.until)))
    IN  Decimal_div(Decimal_mul(distinct_weeks, working_days(p)),
                    working_days(full_period))

Units == {"Month", "Week", "Day", "Hour"}

\* Period::num_units
num_units(p, unit) ==
    CASE unit = "Month" -> num_months(p)
      [] unit = "Week" -> {Value(num_weeks(p))}
      [] unit = "Day" -> {Value(working_days(p))}
      [] unit = "Hour" -> {Value(Decimal_from(0))}

Money_new(currency, amount) == [currency |-> currency, amount |-> amount]

\* mutant: the product is kept as it is
Money_mul_exact(m, other) ==
    Money_new(m.currency, Decimal_mul(m.amount, other))

\* impl Mul<Decimal> for Money
Money_mul(m, other) ==
    Money_new(m.currency, round_dp_2(Decimal_mul(m.amount, other)))

\* impl Add<Money> for Money: Self(self.0, self.1 + other.1)
Money_add(m, other) ==
    Money_new(m.currency, Decimal_add(m.amount, other.amount))

Rate_new(amount, per) == [amount |-> amount, per |-> per]

\* TaxRate::new: Decimal::new(percentage, 2)
TaxRate_new(name, percentage) ==
    [name |-> name, rate |-> Decimal_norm(percentage, 100)]

\* InvoiceItem::new_hourly
InvoiceItem_new_hourly(name, rate, period, quantity) ==
    [name |-> name, rate |-> rate, period |-> period, quantity |-> quantity,
     amount |-> Money_mul(rate.amount, quantity)]

\* InvoiceItem::new: the item, or how its quantity failed to be one
InvoiceItem_new(name, rate, period) ==
    { IF quantity.kind = "value"
      THEN Value([name |-> name, rate |-> rate, period |-> period,
                  quantity |-> quantity.val,
                  amount |-> Money_mul(rate.amount, quantity.val)])
      ELSE quantity : quantity \in num_units(period, rate.per) }

\* Iterator::reduce(|acc, x| acc + x) over the amounts from the i-th on, acc
\* being the sum of those before
RECURSIVE reduce_from(_, _, _)
reduce_from(amounts, i, acc) ==
    IF i > Len(amounts) THEN acc
    ELSE reduce_from(amounts, i + 1, Money_add(acc, amounts[i]))

\* Iterator::reduce: None for no amounts
reduce(amounts) ==
    IF amounts = <<>> THEN None ELSE Some(reduce_from(amounts, 2, amounts[1]))

\* mutant: no amounts sum to zero
expect_or_zero(found) ==
    IF found.some THEN Value(found.val)
    ELSE Value(Money_new("USD", Decimal_from(0)))

\* Option::expect: the value, or a panic
expect(found) == IF found.some THEN Value(found.val) ELSE Panic

\* taxes.iter().fold(subtotal, |a, (_, x)| a + *x) from the i-th tax on
RECURSIVE fold_taxes(_, _, _)
fold_taxes(taxes, i, a) ==
    IF i > Len(taxes) THEN a
    ELSE fold_taxes(taxes, i + 1, Money_add(a, taxes[i][2]))

\* mutant: each tax is taken on the subtotal and the taxes before it
RECURSIVE compound_taxes(_, _, _, _)
compound_taxes(tax_rates, i, a, taxes) ==
    IF i > Len(tax_rates) THEN taxes
    ELSE LET x == Money_mul(a, tax_rates[i].rate)
         IN  compound_taxes(tax_rates, i + 1, Money_add(a, x),
                            Append(taxes, <<tax_rates[i], x>>))

Invoice_calculate_compound(inv) ==
    LET subtotal == expect(reduce([i \in DOMAIN inv.items |->
                                        inv.items[i].amount]))
    IN  IF subtotal = Panic THEN Panic
        ELSE LET taxes == compound_taxes(inv.tax_rates, 1, subtotal.val, <<>>)
             IN  Value([subtotal |-> subtotal.val, taxes |-> taxes,
                        total |-> fold_taxes(taxes, 1, subtotal.val)])

\* Invoice::calculate: the InvoiceTotal, or the panic of expect
Invoice_calculate(inv) ==
    LET subtotal == expect(reduce([i \in DOMAIN inv.items |->
                                        inv.items[i].amount]))
    IN  IF subtotal = Panic THEN Panic
        ELSE LET taxes == [i \in DOMAIN inv.tax_rates |->
                            <<inv.tax_rates[i],
                              Money_mul(subtotal.val, inv.tax_rates[i].rate)>>]
             IN  Value([subtotal |-> subtotal.val, taxes |-> taxes,
                        total |-> fold_taxes(taxes, 1, subtotal.val)])

\* ------------------------------------------- the registry behind the commands
\* run.rs works on a Client with named services and on a Clients registry with
\* the methods get, add, update and remove.
Historical_new == [history |-> BTreeMap_new]

\* Historical::insert
Historical_insert(h, effective, it) ==
    [h EXCEPT !.history = BTreeMap_insert(@, effective, it)]

\* Service::new
Service_new(name) == [name |-> name, rates |-> Historical_new]

\* Invoice::new, the date left out
Invoice_of(number, items, tax_rates) ==
    [number |-> number, items |-> items, tax_rates |-> tax_rates, paid |-> None]

Ok_of(v) == [ok |-> TRUE, val |-> v]

\* Client::new of a client with services; the services are a function of
\* their names
ServiceClient_new(key, name, address) ==
    [key |-> key, name |-> name, address |-> address,
     services |-> <<>>, invoices |-> BTreeMap_new,
     taxes |-> Historical_new]

\* Client::service
service(c, name) ==
    IF name \in DOMAIN c.services THEN Some(c.services[name]) ELSE None

\* Client::service_names
service_names(c) == DOMAIN c.services

\* Client::taxes_as_of: the tax list in force at date, none when none is
taxes_as_of(c, date) ==
    LET found == as_of(c.taxes, date)
    IN  IF found.some THEN found.val ELSE <<>>

\* Client::invoice: the invoice of that number, or not-found
Client_invoice(c, number) ==
    LET found == BTreeMap_get(c.invoices, number)
    IN  IF found.some THEN Ok_of(found.val)
        ELSE Err([kind |-> "NotFound", key |-> c.key, number |-> number])

\* Client::update of a client with services
ServiceClient_update(c, u) ==
    CASE u.type = "Address" -> update_Address(c, u.addr)
      [] u.type = "Name" -> update_Name(c, u.name)
      [] u.type = "ServiceRate" ->
            LET found == service(c, u.service)
                svc == IF found.some THEN found.val ELSE Service_new(u.service)
                set == [svc EXCEPT
                          !.rates = Historical_insert(@, u.effective, u.rate)]
            IN  [client |->
                    [c EXCEPT !.services = (u.service :> set) @@ @],
                 result |-> Ok]
      [] u.type = "Invoiced" ->
            IF u.invoice.number # next_invoice_num(c)
            THEN [client |-> c,
                  result |-> Err([kind |-> "InvoiceOutOfSequence",
                                  current |-> BTreeMap_len(c.invoices),
                                  found |-> u.invoice.number])]
            ELSE [client |->
                    [c EXCEPT !.invoices =
                        BTreeMap_insert(@, u.invoice.number, u.invoice)],
                  result |-> Ok]
      [] u.type = "Paid" -> update_Paid(c, u.num, u.when)
      [] u.type = "Taxes" ->
            [client |->
                [c EXCEPT !.taxes = Historical_insert(@, u.effective, u.taxes)],
             result |-> Ok]

\* Clients::get
Clients_get(clients, key) ==
    IF key \in DOMAIN clients THEN Ok_of(clients[key])
    ELSE Err([kind |-> "NotFound", key |-> key])

\* Clients::add: the client replaces one stored under the key
Clients_add(clients, key, c) ==
    [clients |-> (key :> c) @@ clients, result |-> Ok]

\* Clients::update: an update of an absent key is dropped without an error
Clients_update(clients, key, u) ==
    IF key \in DOMAIN clients
    THEN LET r == ServiceClient_update(clients[key], u)
         IN  [clients |-> [clients EXCEPT ![key] = r.client],
              result |-> r.result]
    ELSE [clients |-> clients, result |-> Ok]

\* Clients::remove: not-found for an absent key
Clients_delete(clients, key) ==
    IF key \in DOMAIN clients
    THEN [clients |-> Clients_remove(clients, key), result |-> Ok]
    ELSE [clients |-> clients,
          result |-> Err([kind |-> "NotFound", key |-> key])]

\* apply_event of run.rs: the registry afterwards and the Result returned
run_apply_event(clients, event) ==
    LET key == event.key
        change == event.change
    IN  CASE change.type = "Added" ->
                Clients_add(clients, key,
                            ServiceClient_new(key, change.name, change.address))
          [] change.type = "Updated" -> Clients_update(clients, key, change.update)
          [] change.type = "Removed" -> Clients_delete(clients, key)

\* from_events of run.rs, the first i events of the log folded already: the
\* first error ends the fold
RECURSIVE run_fold(_, _, _)
run_fold(clients, events, i) ==
    IF i > Len(events) THEN Ok_of(clients)
    ELSE LET r == run_apply_event(clients, events[i])
         IN  IF r.result.ok THEN run_fold(r.clients, events, i + 1)
             ELSE r.result

run_from_events(events) == run_fold(Clients_new, events, 1)

\* ----------------------------------------------------------------- commands
\* What the user does at the prompts of a command: "error" fails its first
\* prompt, "decline" and "confirm" answer the prompts and then the Confirm.
\* The commands that can add an event are run for the one key clients are
\* added under, the others for every key.
Answers == {"error", "decline", "confirm"}

InputKeys == {"acme"}

ServiceRates == {Rate_new(Money_new("USD", Decimal_from(1000)), "Month")}

ItemPeriods == {Period_new(d, d + 1) : d \in Dates}

RECURSIVE SeqsUpTo(_, _)
SeqsUpTo(S, n) ==
    IF n = 0 THEN {<<>>}
    ELSE SeqsUpTo(S, n - 1)
         \cup {Append(q, x) : q \in {t \in SeqsUpTo(S, n - 1) : Len(t) = n - 1},
                              x \in S}

\* the answers to the prompts of the loop of invoice: a period and a service
\* per item, and "another" after every item but the last
ItemInputs ==
    SeqsUpTo([period : ItemPeriods, service : ServiceNames], MaxItems) \ {<<>>}

Commands ==
    [type : {"AddClient"}, key : InputKeys, name : {"Acme"},
     address : {"123 St"}, answer : Answers]
    \cup [type : {"AddService"}, client : InputKeys, name : ServiceNames,
          rate : ServiceRates, effective : {MaxDate}, answer : Answers]
    \cup [type : {"ListClients"}]
    \cup [type : {"ListInvoices", "ListServices"}, client : Keys]
    \cup [type : {"Invoice"}, client : InputKeys, items : ItemInputs,
          answer : Answers]
    \cup [type : {"Show"}, client : Keys, property : {"Client", "Taxes"}]
    \cup [type : {"Show"}, client : Keys, property : {"Invoice"},
          number : InvoiceNumbers]
    \cup [type : {"SetRate"}, client : InputKeys, service : ServiceNames,
          rate : ServiceRates, effective : {MaxDate}, answer : Answers]
    \cup [type : {"SetTaxes"}, client : InputKeys, taxes : TaxLists \ {<<>>},
          effective : {MaxDate}, answer : Answers]
    \cup [type : {"SetAddress"}, client : InputKeys, address : {"Some Place"},
          answer : Answers]
    \cup [type : {"SetName"}, client : InputKeys, name : {"Innotech"},
          answer : Answers]
    \cup [type : {"MarkPaid"}, client : InputKeys, number : InvoiceNumbers,
          when : {MaxDate}, answer : Answers]
    \cup [type : {"Remove"}, client : Keys]

InputError == Err([kind |-> "Input"])

\* a prompt of input.rs: the value typed, or the error of the prompt
prompt(answer, value) == IF answer = "error" THEN InputError ELSE Ok_of(value)

\* mutant: the command goes on whatever the answer
confirm_always(answer) == Ok_of(TRUE)

\* input::confirm
confirm(answer) == Ok_of(answer = "confirm")

\* input::service_select: one of the names offered; no name to offer is an
\* error of the prompt
service_select(services, pick) ==
    IF pick \in services THEN Ok_of(pick) ELSE InputError

\* Event::new, Event::new_update, the timestamp left out
Event_new(key, change) == [key |-> key, change |-> change]

Event_new_update(key, u) ==
    [key |-> key, change |-> [type |-> "Updated", update |-> u]]

\* Ok(input::confirm()?.then(|| event))
confirmed(answer, made) ==
    LET yes == confirm(answer)
    IN  IF yes.ok THEN Ok_of(IF yes.val THEN Some(made) ELSE None) ELSE yes

add_client(cmd) ==
    LET typed == prompt(cmd.answer, <<cmd.key, cmd.name, cmd.address>>)
    IN  IF ~typed.ok THEN typed
        ELSE confirmed(cmd.answer,
                       Event_new(cmd.key, [type |-> "Added", name |-> cmd.name,
                                           address |-> cmd.address]))

add_service(c, cmd) ==
    LET typed == prompt(cmd.answer, <<cmd.name, cmd.rate, cmd.effective>>)
    IN  IF ~typed.ok THEN typed
        ELSE confirmed(cmd.answer,
                       Event_new_update(c.key,
                            [type |-> "ServiceRate", service |-> cmd.name,
                             effective |-> cmd.effective, rate |-> cmd.rate]))

set_taxes(c, cmd) ==
    LET typed == prompt(cmd.answer, <<cmd.taxes, cmd.effective>>)
    IN  IF ~typed.ok THEN typed
        ELSE confirmed(cmd.answer,
                       Event_new_update(c.key,
                            [type |-> "Taxes", effective |-> cmd.effective,
                             taxes |-> cmd.taxes]))

set_rate(c, cmd) ==
    LET typed == prompt(cmd.answer, cmd.service)
        picked == service_select(service_names(c), cmd.service)
    IN  IF ~typed.ok THEN typed
        ELSE IF ~picked.ok THEN picked
        ELSE confirmed(cmd.answer,
                       Event_new_update(c.key,
                            [type |-> "ServiceRate", service |-> picked.val,
                             effective |-> cmd.effective, rate |-> cmd.rate]))

change_address(c, cmd) ==
    LET typed == prompt(cmd.answer, cmd.address)
    IN  IF ~typed.ok THEN typed
        ELSE confirmed(cmd.answer,
                       Event_new_update(c.key,
                            [type |-> "Address", addr |-> cmd.address]))

change_name(c, cmd) ==
    LET typed == prompt(cmd.answer, cmd.name)
    IN  IF ~typed.ok THEN typed
        ELSE confirmed(cmd.answer,
                       Event_new_update(c.key, [type |-> "Name", name |-> cmd.name]))

mark_paid(inv, c, cmd) ==
    LET typed == prompt(cmd.answer, cmd.when)
    IN  IF ~typed.ok THEN typed
        ELSE confirmed(cmd.answer,
                       Event_new_update(c.key,
                            [type |-> "Paid", num |-> inv.number,
                             when |-> cmd.when]))

\* mutant: the rate set last, whatever its date
item_rate_latest(c, name, period) ==
    LET svc == service(c, name)
        found == IF svc.some THEN next_back(svc.val.rates.history) ELSE None
    IN  IF found.some THEN Ok_of(found.val[2])
        ELSE Err([kind |-> "NoRate", key |-> c.key, effective |-> period.from])

\* client.service(name).map(|s| s.rates.as_of(period.from)).flatten()
\*       .ok_or(ClientError::NoRate(client.key.clone(), period.from))
item_rate(c, name, period) ==
    LET svc == service(c, name)
        found == IF svc.some THEN as_of(svc.val.rates, period.from) ELSE None
    IN  IF found.some THEN Ok_of(found.val)
        ELSE Err([kind |-> "NoRate", key |-> c.key, effective |-> period.from])

\* what is pushed for an item: the item, or for a quantity 2^32 * times too
\* large that quantity in its place
pushed(made) == IF made.kind = "value" THEN made.val ELSE made

\* mutant: the item of the last round is not pushed
RECURSIVE invoice_loop_break_first(_, _, _, _)
invoice_loop_break_first(c, inputs, i, items) ==
    LET period_i == inputs[i].period
        name == service_select(service_names(c), inputs[i].service)
        found == item_rate(c, inputs[i].service, period_i)
    IN  IF ~name.ok THEN {name}
        ELSE IF ~found.ok THEN {found}
        ELSE UNION {
            IF made = Panic THEN {Err([kind |-> "Panic"])}
            ELSE IF i < Len(inputs)
                 THEN invoice_loop_break_first(c, inputs, i + 1,
                                               Append(items, pushed(made)))
                 ELSE {Ok_of(items)}
            : made \in InvoiceItem_new(name.val, found.val, period_i) }

\* the loop of invoice at its i-th round, items collected before: the items
\* of the invoice, or the error that ends the command; a panic ends the
\* process
RECURSIVE invoice_loop(_, _, _, _)
invoice_loop(c, inputs, i, items) ==
    LET period_i == inputs[i].period
        name == service_select(service_names(c), inputs[i].service)
        found == item_rate(c, inputs[i].service, period_i)
    IN  IF ~name.ok THEN {name}
        ELSE IF ~found.ok THEN {found}
        ELSE UNION {
            IF made = Panic THEN {Err([kind |-> "Panic"])}
            ELSE IF i < Len(inputs)
                 THEN invoice_loop(c, inputs, i + 1, Append(items, pushed(made)))
                 ELSE {Ok_of(Append(items, pushed(made)))}
            : made \in InvoiceItem_new(name.val, found.val, period_i) }

Min(S) == CHOOSE x \in S : \A y \in S : x <= y

invoice(c, cmd) ==
    LET typed == prompt(cmd.answer, cmd.items)
        start == Min({cmd.items[i].period.from : i \in DOMAIN cmd.items})
    IN  IF ~typed.ok THEN {typed}
        ELSE { IF ~items.ok THEN items
               ELSE confirmed(cmd.answer,
                        Event_new_update(c.key,
                            [type |-> "Invoiced",
                             invoice |-> Invoice_of(next_invoice_num(c), items.val,
                                                    taxes_as_of(c, start))]))
               : items \in invoice_loop(c, cmd.items, 1, <<>>) }

\* run_show: nothing but an invoice asked for can fail, the views left out
run_show(c, cmd) ==
    IF cmd.property = "Invoice"
    THEN LET found == Client_invoice(c, cmd.number)
         IN  IF found.ok THEN Ok_of(None) ELSE found
    ELSE Ok_of(None)

\* what the arm of a command does with the client that clients.get found
run_cmd_client(cmd, c) ==
    CASE cmd.type = "AddService" -> {add_service(c, cmd)}
      [] cmd.type \in {"ListInvoices", "ListServices"} -> {Ok_of(None)}
      [] cmd.type = "Invoice" -> invoice(c, cmd)
      [] cmd.type = "Show" -> {run_show(c, cmd)}
      [] cmd.type = "SetTaxes" -> {set_taxes(c, cmd)}
      [] cmd.type = "SetRate" -> {set_rate(c, cmd)}
      [] cmd.type = "SetName" -> {change_name(c, cmd)}
      [] cmd.type = "SetAddress" -> {change_address(c, cmd)}
      [] cmd.type = "MarkPaid" ->
            LET found == Client_invoice(c, cmd.number)
            IN  IF found.ok THEN {mark_paid(found.val, c, cmd)} ELSE {found}

\* the match of run_cmd: the MaybeEvent values the command can come to;
\* every arm but those of AddClient, ListClients and Remove starts with
\* clients.get(&client)?
run_cmd_match(cmd, clients) ==
    CASE cmd.type = "AddClient" -> {add_client(cmd)}
      [] cmd.type = "ListClients" -> {Ok_of(None)}
      [] cmd.type = "Remove" -> {Ok_of(None)}
      [] OTHER ->
            LET found == Clients_get(clients, cmd.client)
            IN  IF found.ok THEN run_cmd_client(cmd, found.val) ELSE {found}

\* mutant: the event is applied to a new registry, not the one folded
run_cmd_applied_to_new(clients, made) ==
    IF made.ok /\ made.val.some
    THEN LET applied == run_apply_event(Clients_new, made.val.val)
         IN  IF applied.result.ok THEN made ELSE applied.result
    ELSE made

\* mutant: the event is returned though the registry rejected it
run_cmd_applied_dropped(clients, made) == made

\* apply_event(&mut clients, &event)?; Ok(Some(event))
run_cmd_applied(clients, made) ==
    IF made.ok /\ made.val.some
    THEN LET applied == run_apply_event(clients, made.val.val)
         IN  IF applied.result.ok THEN made ELSE applied.result
    ELSE made

\* run_cmd: what it can return for the command and the events loaded
run_cmd(cmd, log) ==
    LET folded_log == run_from_events(log)
    IN  IF ~folded_log.ok THEN {folded_log}
        ELSE { run_cmd_applied(folded_log.val, made) :
                 made \in run_cmd_match(cmd, folded_log.val) }

\* ------------------------------------------------------------------- state
VARIABLES
    folded,     \* how many events of the log the loop of from_events has applied
    event,      \* the loop variable: the event applied last, None before the first
    before,     \* history: the registry as it was when that event was applied
    clients,    \* the registry the fold has built
    dropped,    \* the Result of the Client::update call made for that event,
                \* which apply_event drops; None when it made no call
    accepted,   \* history: per key, the numbers of the Invoiced events the
                \* client accepted, one sequence per Added event of the key
    period,     \* the Period the invoice command was given for an item
    rate,       \* the Rate of the item's service effective at period.from
    hours,      \* the billable hours the caller has for the item
    item,       \* what InvoiceItem::new made of them, None before the call
    lhs,        \* the Money on the left of + or *
    rhs,        \* the Money added to it, or the Decimal it is multiplied by
    out,        \* what the operator returned, None before the call
    billed,     \* the Invoice whose total is asked for
    total,      \* what Invoice::calculate returned, None before the call
    files,      \* the file system: what is stored under each path
    pc,         \* where run_cmd_with_path stands: "idle" before the first
                \* command, "create", "write", "rename" in the persist step,
                \* "done" when it has returned
    cmd,        \* the command being run, or run last, with the user's answers
    events,     \* the Vec of events of run_cmd_with_path
    loaded,     \* history: the file system as it was when the command began
    produced,   \* what run_cmd returned, None when the log did not load
    result,     \* what run_cmd_with_path returned, None while it runs
    encoded,    \* the S-expression to_writer made of a log, None before it
    decoded,    \* what from_reader made of that S-expression, None before it
    statuses    \* the billing status per client key that from_events of
                \* invoices.rs has built

vars == <<folded, event, before, clients, dropped, accepted,
          period, rate, hours, item, lhs, rhs, out, billed, total,
          files, pc, cmd, events, loaded, produced, result,
          encoded, decoded, statuses>>

billing_vars == <<period, rate, hours, item, lhs, rhs, out, billed, total>>

cmd_vars == <<files, pc, cmd, events, loaded, produced, result>>

rest_vars == <<encoded, decoded, statuses>>

\* no log is being written or read back, no billing status folded
NoRest ==
    /\ encoded = None
    /\ decoded = None
    /\ statuses = <<>>

\* no command is being run
NoCmd ==
    /\ files = <<>>
    /\ pc = "idle"
    /\ cmd = None
    /\ events = <<>>
    /\ loaded = <<>>
    /\ produced = None
    /\ result = None

\* no invoice item is being built
NoItem ==
    /\ period = None
    /\ rate = None
    /\ hours = None
    /\ item = None

\* no Money is being added or multiplied
NoMoney ==
    /\ lhs = None
    /\ rhs = None
    /\ out = None

\* no invoice is being totalled
NoTotal ==
    /\ billed = None
    /\ total = None

Init ==
    /\ folded = 0
    /\ event = None
    /\ before = Clients_new
    /\ clients = Clients_new
    /\ dropped = None
    /\ accepted = [k \in Keys |-> <<>>]
    /\ NoItem
    /\ NoMoney
    /\ NoTotal
    /\ NoCmd
    /\ NoRest

\* the history of accepted invoice numbers after e was applied with outcome d
record_accepted(acc, e, d) ==
    CASE e.change.type = "Added" ->
            [acc EXCEPT ![e.key] = Append(@, <<>>)]
      [] e.change.type = "Updated" /\ e.change.update.type = "Invoiced"
            /\ d = Some(Ok) ->
            [acc EXCEPT ![e.key] =
                [@ EXCEPT ![Len(@)] = Append(@, e.change.update.invoice.number)]]
      [] OTHER -> acc

\* one iteration of the loop of from_events: apply the next event of the log
Fold(e) ==
    /\ folded < MaxEvents
    /\ folded' = folded + 1
    /\ event' = Some(e)
    /\ before' = clients
    /\ clients' = apply_event(clients, e).clients
    /\ dropped' = apply_event(clients, e).dropped
    /\ accepted' = record_accepted(accepted, e, apply_event(clients, e).dropped)
    /\ UNCHANGED billing_vars
    /\ UNCHANGED cmd_vars
    /\ UNCHANGED rest_vars

Next == \E e \in Events : Fold(e)

Spec == Init /\ [][Next]_vars

\* what from_events returns when the log ends with the events folded so far:
\* Ok(clients), whatever the update calls returned
from_events_result == [ok |-> TRUE, val |-> clients]

\* ------------------------------------------------------------ invoice items
fold_vars == <<folded, event, before, clients, dropped, accepted>>

\* no log is being folded
NoFold ==
    /\ folded = 0
    /\ event = None
    /\ before = Clients_new
    /\ clients = Clients_new
    /\ dropped = None
    /\ accepted = [k \in Keys |-> <<>>]

FirstFrom == from_ymd(2023, 12, 1)

LongSpan == days_in_year(2024)

\* the whole calendar months of the years from Epoch.year on
FullMonths ==
    { Period_new(from_ymd(y, m, 1), from_ymd(y, m, days_in_month(y, m))) :
        y \in Epoch.year..(Epoch.year + MaxYears - 1), m \in 1..12 }

\* the periods from the first day of one of those months to the last day of
\* the same or a later month
WholeMonths ==
    { Period_new(p.from, end_of_month(checked_add_months(p.from, k))) :
        p \in FullMonths, k \in 0..(MaxMonths - 1) }

Periods ==
    { Period_new(from, from + span) :
        from \in FirstFrom..(FirstFrom + FromDays - 1),
        span \in (0..MaxSpan) \cup {LongSpan} }
    \cup FullMonths
    \cup WholeMonths

ItemRates == { Rate_new(Money_new("USD", Decimal_from(1000)), per) : per \in Units }

Hours == {Decimal_from(8), Decimal_norm(15, 2)}

\* the invoice command has a period, a rate and the caller's hours for an item
InitItem ==
    /\ NoFold
    /\ period \in {Some(p) : p \in Periods}
    /\ rate \in {Some(r) : r \in ItemRates}
    /\ hours \in {Some(h) : h \in Hours}
    /\ item = None
    /\ NoMoney
    /\ NoTotal
    /\ NoCmd
    /\ NoRest

\* the invoice command builds the item: InvoiceItem::new(name, rate, period),
\* whatever the unit of the rate, and asks for no hours
PushItem ==
    /\ item = None
    /\ \E made \in InvoiceItem_new("consulting", rate.val, period.val) :
            item' = Some(made)
    /\ UNCHANGED <<period, rate, hours>>
    /\ UNCHANGED <<lhs, rhs, out, billed, total>>
    /\ UNCHANGED fold_vars
    /\ UNCHANGED cmd_vars
    /\ UNCHANGED rest_vars

NextItem == PushItem

SpecItem == InitItem /\ [][NextItem]_vars

\* ------------------------------------------------- the fold behind commands
RunRates ==
    { Rate_new(Money_new("USD", Decimal_from(1000)), "Month"),
      Rate_new(Money_new("USD", Decimal_from(1500)), "Month") }

RunUpdates ==
    [type : {"Address"}, addr : Addresses]
    \cup [type : {"Name"}, name : Names]
    \cup [type : {"ServiceRate"}, service : ServiceNames, effective : Dates,
          rate : RunRates]

RunChanges ==
    [type : {"Added"}, name : Names, address : Addresses]
    \cup [type : {"Updated"}, update : RunUpdates]
    \cup [type : {"Removed"}]

RunEvents == [key : Keys, change : RunChanges]

\* from_events of run.rs is called with a log
InitRun ==
    /\ folded = 0
    /\ event = None
    /\ before = Clients_new
    /\ clients = Clients_new
    /\ dropped = None
    /\ accepted = [k \in Keys |-> <<>>]
    /\ NoItem
    /\ NoMoney
    /\ NoTotal
    /\ files = <<>>
    /\ pc = "idle"
    /\ cmd = None
    /\ events \in SeqsUpTo(RunEvents, MaxRun)
    /\ loaded = <<>>
    /\ produced = None
    /\ result = None
    /\ NoRest

\* one iteration of the loop of from_events: apply_event(&mut clients,
\* event)?, an error ending the fold
RunFold ==
    /\ result = None
    /\ folded < Len(events)
    /\ LET e == events[folded + 1]
           r == run_apply_event(clients, e)
       IN  /\ folded' = folded + 1
           /\ event' = Some(e)
           /\ before' = clients
           /\ clients' = r.clients
           /\ result' = IF r.result.ok THEN None ELSE Some(r.result)
    /\ UNCHANGED <<dropped, accepted>>
    /\ UNCHANGED billing_vars
    /\ UNCHANGED <<files, pc, cmd, events, loaded, produced>>
    /\ UNCHANGED rest_vars

\* the end of the loop: Ok(clients)
RunReturn ==
    /\ result = None
    /\ folded = Len(events)
    /\ result' = Some(Ok_of(clients))
    /\ UNCHANGED fold_vars
    /\ UNCHANGED billing_vars
    /\ UNCHANGED <<files, pc, cmd, events, loaded, produced>>
    /\ UNCHANGED rest_vars

NextRun == RunFold \/ RunReturn

SpecRun == InitRun /\ [][NextRun]_vars

\* -------------------------------------------------------------------- Money
Currencies == {"CAD", "USD", "EUR"}

\* amounts in cents and in thousands of dollars
Amounts ==
    { Decimal_norm(c, 100) : c \in {0, 10, 25, 35, 250, 99999, 100000} }

Moneys == { Money_new(c, a) : c \in Currencies, a \in Amounts }

\* what a Money is multiplied by: a tax rate, or the quantity of an item
Factors ==
    { TaxRate_new("GST", 5).rate, TaxRate_new("PST", 7).rate, Decimal_from(1),
      Decimal_norm(1, 2), Decimal_norm(1, 3), Decimal_norm(10, 21),
      Decimal_norm(3, 2) }

InitMoney ==
    /\ NoFold
    /\ NoItem
    /\ lhs \in {Some(m) : m \in Moneys}
    /\ rhs \in {Some(x) : x \in Moneys \cup Factors}
    /\ out = None
    /\ NoTotal
    /\ NoCmd
    /\ NoRest

\* lhs + rhs
Add ==
    /\ out = None
    /\ rhs.val \in Moneys
    /\ out' = Some(Money_add(lhs.val, rhs.val))
    /\ UNCHANGED <<lhs, rhs>>
    /\ UNCHANGED <<period, rate, hours, item, billed, total>>
    /\ UNCHANGED <<fold_vars, cmd_vars>>
    /\ UNCHANGED rest_vars

\* lhs * rhs
Mul ==
    /\ out = None
    /\ rhs.val \in Factors
    /\ out' = Some(Money_mul(lhs.val, rhs.val))
    /\ UNCHANGED <<lhs, rhs>>
    /\ UNCHANGED <<period, rate, hours, item, billed, total>>
    /\ UNCHANGED <<fold_vars, cmd_vars>>
    /\ UNCHANGED rest_vars

NextMoney == Add \/ Mul

SpecMoney == InitMoney /\ [][NextMoney]_vars

\* ----------------------------------------------------------- invoice totals
\* one day, three days and a whole month, all of December 2023
TotalPeriods ==
    { Period_new(FirstFrom, FirstFrom),
      Period_new(FirstFrom + 3, FirstFrom + 5),
      Period_new(FirstFrom, end_of_month(FirstFrom)) }

TotalRates ==
    { Rate_new(Money_new("USD", Decimal_from(1000)), "Month"),
      Rate_new(Money_new("USD", Decimal_norm(1, 10)), "Day"),
      Rate_new(Money_new("CAD", Decimal_from(1500)), "Month"),
      Rate_new(Money_new("USD", Decimal_norm(333, 1000)), "Hour") }

\* the items InvoiceItem::new makes of them, and those
\* InvoiceItem::new_hourly makes of the hourly rates and the hours
TotalItems ==
    { made.val : made \in
        { m \in UNION { InvoiceItem_new("consulting", r, p) :
                           r \in TotalRates, p \in TotalPeriods } :
            m.kind = "value" } }
    \cup { InvoiceItem_new_hourly("consulting", r, p, h) :
              r \in {x \in TotalRates : x.per = "Hour"},
              p \in TotalPeriods, h \in Hours }

TaxRateLists ==
    { <<>>, <<TaxRate_new("GST", 5)>>,
      <<TaxRate_new("GST", 5), TaxRate_new("PST", 7)>> }

Invoices ==
    { Invoice_of(1, items, tax_rates) :
        items \in SeqsUpTo(TotalItems, MaxItems), tax_rates \in TaxRateLists }

InitTotal ==
    /\ NoFold
    /\ NoItem
    /\ NoMoney
    /\ billed \in {Some(inv) : inv \in Invoices}
    /\ total = None
    /\ NoCmd
    /\ NoRest

\* the total of the invoice is asked for: Invoice::calculate
Calculate ==
    /\ total = None
    /\ total' = Some(Invoice_calculate(billed.val))
    /\ UNCHANGED billed
    /\ UNCHANGED <<period, rate, hours, item, lhs, rhs, out>>
    /\ UNCHANGED <<fold_vars, cmd_vars>>
    /\ UNCHANGED rest_vars

NextTotal == Calculate

SpecTotal == InitTotal /\ [][NextTotal]_vars

\* -------------------------------------------------------- running commands
\* A path is a file stem and an extension.  A file is complete when it holds
\* a whole list of events; one that is not (created and not written, or
\* written in part) does not decode, and what it holds is left out.
history_path == [stem |-> "client", ext |-> "history"]

with_extension(path, ext) == [path EXCEPT !.ext = ext]

\* mutant: the list is written over the history file itself
updated_path_in_place(path) == path

\* history_path.with_extension("updated")
updated_path(path) == with_extension(path, "updated")

Paths == {history_path, with_extension(history_path, "updated")}

NoFile == [exists |-> FALSE]

File(written) == [exists |-> TRUE, complete |-> TRUE, events |-> written]

Partial == [exists |-> TRUE, complete |-> FALSE, events |-> <<>>]

\* the load of run_cmd_with_path: no file is an empty list, a file that
\* cannot be opened an Io error, one that does not decode a Format error
load(fs, path, opens) ==
    IF ~fs[path].exists THEN Ok_of(<<>>)
    ELSE IF ~opens THEN Err([kind |-> "Io"])
    ELSE IF fs[path].complete THEN Ok_of(fs[path].events)
    ELSE Err([kind |-> "Format"])

\* mutant: the new event replaces the list
push_alone(log, e) == <<e>>

\* events.push(event)
push(log, e) == Append(log, e)

\* fs::rename: the file moves to the new path in one step
rename(fs, from, to) ==
    [p \in DOMAIN fs |->
        IF p = to THEN fs[from] ELSE IF p = from THEN NoFile ELSE fs[p]]

\* the history file is absent, holds an empty list, or does not decode
InitCmd ==
    /\ NoFold
    /\ NoItem
    /\ NoMoney
    /\ NoTotal
    /\ files \in { [p \in Paths |-> IF p = history_path THEN f ELSE NoFile] :
                     f \in {NoFile, File(<<>>), Partial} }
    /\ pc = "idle"
    /\ cmd = None
    /\ events = <<>>
    /\ loaded = files
    /\ produced = None
    /\ result = None
    /\ NoRest

\* run_cmd_with_path up to the persist step: the history file is loaded and
\* the command run; an event it returns is pushed
RunCmd(c, opens) ==
    /\ pc = "idle"
    /\ cmd' = Some(c)
    /\ loaded' = files
    /\ LET read == load(files, history_path, opens)
       IN  IF ~read.ok
           THEN /\ produced' = None
                /\ events' = <<>>
                /\ result' = Some(read)
                /\ pc' = "done"
           ELSE \E made \in run_cmd(c, read.val) :
                /\ produced' = Some(made)
                /\ IF made.ok /\ made.val.some
                   THEN /\ Len(read.val) < MaxLog
                        /\ events' = push(read.val, made.val.val)
                        /\ result' = None
                        /\ pc' = "create"
                   ELSE /\ events' = read.val
                        /\ result' = Some(IF made.ok THEN Ok ELSE made)
                        /\ pc' = "done"
    /\ UNCHANGED files
    /\ UNCHANGED <<fold_vars, billing_vars>>
    /\ UNCHANGED rest_vars

\* File::create(&updated_path)?: an empty file under the path, or an Io error
Create(created) ==
    /\ pc = "create"
    /\ IF created
       THEN /\ files' = [files EXCEPT ![updated_path(history_path)] =
                                        Partial]
            /\ pc' = "write"
            /\ UNCHANGED result
       ELSE /\ result' = Some(Err([kind |-> "Io"]))
            /\ pc' = "done"
            /\ UNCHANGED files
    /\ UNCHANGED <<cmd, events, loaded, produced>>
    /\ UNCHANGED <<fold_vars, billing_vars>>
    /\ UNCHANGED rest_vars

\* serde_lexpr::to_writer(f, &events)?: the whole list is written, or the
\* write fails with part of it in the file
Write(written) ==
    /\ pc = "write"
    /\ IF written
       THEN /\ files' = [files EXCEPT ![updated_path(history_path)] =
                                        File(events)]
            /\ pc' = "rename"
            /\ UNCHANGED result
       ELSE /\ files' = [files EXCEPT ![updated_path(history_path)] = Partial]
            /\ result' = Some(Err([kind |-> "Io"]))
            /\ pc' = "done"
    /\ UNCHANGED <<cmd, events, loaded, produced>>
    /\ UNCHANGED <<fold_vars, billing_vars>>
    /\ UNCHANGED rest_vars

\* fs::rename(updated_path, history_path)?; Ok(())
Rename(renamed) ==
    /\ pc = "rename"
    /\ IF renamed
       THEN /\ files' = rename(files, updated_path(history_path), history_path)
            /\ result' = Some(Ok)
       ELSE /\ result' = Some(Err([kind |-> "Io"]))
            /\ UNCHANGED files
    /\ pc' = "done"
    /\ UNCHANGED <<cmd, events, loaded, produced>>
    /\ UNCHANGED <<fold_vars, billing_vars>>
    /\ UNCHANGED rest_vars

\* the process ends; the next command is run by a new one
Exit ==
    /\ pc = "done"
    /\ pc' = "idle"
    /\ cmd' = None
    /\ events' = <<>>
    /\ loaded' = files
    /\ produced' = None
    /\ result' = None
    /\ UNCHANGED files
    /\ UNCHANGED <<fold_vars, billing_vars>>
    /\ UNCHANGED rest_vars

NextCmd ==
    \/ \E c \in Commands, opens \in BOOLEAN : RunCmd(c, opens)
    \/ \E created \in BOOLEAN : Create(created)
    \/ \E written \in BOOLEAN : Write(written)
    \/ \E renamed \in BOOLEAN : Rename(renamed)
    \/ Exit

SpecCmd == InitCmd /\ [][NextCmd]_vars

\* ------------------------------------------------- billing status (invoices.rs)
\* The fold of invoices.rs keeps, per client key, a BillingStatus; its events
\* are Invoiced(invoice) and Paid(number), of the invoice only the number kept.
MaxBill == 3

BillChanges ==
    [type : {"Invoiced"}, number : InvoiceNumbers]
    \cup [type : {"Paid"}, number : InvoiceNumbers]

BillEvents == [client_key : Keys, change : BillChanges]

\* BillingStatus::new
BillingStatus_new == [count |-> 0, paid |-> BTreeMap_new, unpaid |-> BTreeMap_new]

\* statuses.entry(key).or_insert(BillingStatus::new())
entry_or_insert(m, key) ==
    IF key \in DOMAIN m THEN m ELSE (key :> BillingStatus_new) @@ m

\* the Invoiced arm of the loop of from_events: the outcomes of one round.
\* invoice.number - status.count is a subtraction of usize: below zero it
\* panics, or wraps to a number that is not 1.
bill_Invoiced(m, key, number) ==
    LET held == entry_or_insert(m, key)
        status == held[key]
    IN  IF number < status.count
        THEN { [statuses |-> held, result |-> Err([kind |-> "Panic"])],
               [statuses |-> held,
                result |-> Err([kind |-> "OutOfSequence",
                                current |-> status.count, found |-> number])] }
        ELSE IF number - status.count # 1
        THEN { [statuses |-> held,
                result |-> Err([kind |-> "OutOfSequence",
                                current |-> status.count, found |-> number])] }
        ELSE { [statuses |->
                  [held EXCEPT ![key].unpaid = BTreeMap_insert(@, number, number)],
                result |-> Ok] }

\* the Paid arm: the invoice moves from unpaid to paid
bill_Paid(m, key, number) ==
    IF key \in DOMAIN m /\ BTreeMap_get(m[key].unpaid, number).some
    THEN { [statuses |->
              [m EXCEPT ![key].unpaid = SelectSeq(@, LAMBDA e : e[1] # number),
                        ![key].paid = BTreeMap_insert(@, number, number)],
            result |-> Ok] }
    ELSE { [statuses |-> m,
            result |-> Err([kind |-> "PaidOutOfSequence", number |-> number])] }

\* one round of the loop of from_events of invoices.rs
bill_apply(m, e) ==
    IF e.change.type = "Invoiced"
    THEN bill_Invoiced(m, e.client_key, e.change.number)
    ELSE bill_Paid(m, e.client_key, e.change.number)

\* from_events of invoices.rs is called with a log
InitBill ==
    /\ folded = 0
    /\ event = None
    /\ before = Clients_new
    /\ clients = Clients_new
    /\ dropped = None
    /\ accepted = [k \in Keys |-> <<>>]
    /\ NoItem
    /\ NoMoney
    /\ NoTotal
    /\ files = <<>>
    /\ pc = "idle"
    /\ cmd = None
    /\ events \in SeqsUpTo(BillEvents, MaxBill)
    /\ loaded = <<>>
    /\ produced = None
    /\ result = None
    /\ encoded = None
    /\ decoded = None
    /\ statuses = <<>>

\* one round of the loop: an Err is returned at once, a panic ends the process
BillFold ==
    /\ result = None
    /\ folded < Len(events)
    /\ \E r \in bill_apply(statuses, events[folded + 1]) :
        /\ folded' = folded + 1
        /\ event' = Some(events[folded + 1])
        /\ statuses' = r.statuses
        /\ result' = IF r.result = Ok THEN None ELSE Some(r.result)
    /\ UNCHANGED <<before, clients, dropped, accepted>>
    /\ UNCHANGED billing_vars
    /\ UNCHANGED <<files, pc, cmd, events, loaded, produced>>
    /\ UNCHANGED <<encoded, decoded>>

\* the end of the loop: Ok(statuses)
BillReturn ==
    /\ result = None
    /\ folded = Len(events)
    /\ result' = Some(Ok_of(statuses))
    /\ UNCHANGED fold_vars
    /\ UNCHANGED billing_vars
    /\ UNCHANGED <<files, pc, cmd, events, loaded, produced>>
    /\ UNCHANGED rest_vars

NextBill == BillFold \/ BillReturn

SpecBill == InitBill /\ [][NextBill]_vars

\* ------------------------------------------------------- the log on disk
\* serde_lexpr writes the Vec of events as one S-expression: a tuple struct
\* as a vector #(..), a struct as a list of (field . value) pairs, a unit
\* variant as a symbol, a newtype variant as (Variant . value), a tuple
\* variant as (Variant value ..), a date as a string, a Decimal as a float.
\* A pair whose second part is a list is that list with the first part in
\* front: (Updated . (Rate d r)) is (Updated Rate d r).  The timestamp of an
\* event, which no fold reads, is left out.
F64Digits == 6

Sx_string(s) == [sx |-> "string", val |-> s]

Sx_symbol(s) == [sx |-> "symbol", val |-> s]

Sx_int(i) == [sx |-> "int", val |-> i]

Sx_float(x) == [sx |-> "float", val |-> x]

Sx_vector(items) == [sx |-> "vector", items |-> items]

Sx_list(items) == [sx |-> "list", items |-> items]

Sx_cons(car, cdr) ==
    IF cdr.sx = "list" THEN Sx_list(<<car>> \o cdr.items)
    ELSE [sx |-> "cons", car |-> car, cdr |-> cdr]

\* the first part of a pair or list
Sx_car(pair) == IF pair.sx = "list" THEN pair.items[1] ELSE pair.car

\* the second part of a pair or list
Sx_cdr(pair) ==
    IF pair.sx = "list" THEN Sx_list(Tail(pair.items)) ELSE pair.cdr

\* the value of a field of a struct
Sx_field(fields, name) ==
    Sx_cdr(fields.items[CHOOSE i \in DOMAIN fields.items :
                            /\ fields.items[i].sx \in {"list", "cons"}
                            /\ (fields.items[i].sx = "list"
                                    => fields.items[i].items # <<>>)
                            /\ Sx_car(fields.items[i]) = Sx_symbol(name)])

RECURSIVE pow10(_)
pow10(k) == IF k = 0 THEN 1 ELSE 10 * pow10(k - 1)

\* the e with 10^(e-1) <= a < 10^e of a positive Decimal, counted up from e
\* for one that is 1 or more and down from e for one below 1
RECURSIVE exponent10_from(_, _)
exponent10_from(a, e) ==
    IF a.n >= a.d
    THEN IF a.n < a.d * pow10(e) THEN e ELSE exponent10_from(a, e + 1)
    ELSE IF a.n * pow10(1 - e) >= a.d THEN e ELSE exponent10_from(a, e - 1)

exponent10(a) == exponent10_from(a, 0)

\* Decimal::to_f64 and the shortest decimal that reads back as that f64: a
\* Decimal of few significant digits comes back as it was, one of more
\* digits rounded.  An f64 keeps 15 to 17 significant digits and a Decimal
\* up to 28; the model keeps F64Digits of the digits of a fraction.
to_f64(a) ==
    IF a.n = 0 THEN a
    ELSE LET k == F64Digits - exponent10(a)
             q == (a.n * pow10(k)) \div a.d
             r == (a.n * pow10(k)) % a.d
             up == 2 * r > a.d \/ (2 * r = a.d /\ q % 2 = 1)
         IN  Decimal_norm(IF up THEN q + 1 ELSE q, pow10(k))

\* NaiveDate as "%Y-%m-%d"
ser_date(date) == Sx_string(<<year(date), month(date), day(date)>>)

de_date(sx) == from_ymd(sx.val[1], sx.val[2], sx.val[3])

ser_decimal(a) == Sx_float(to_f64(a))

\* Decimal::from_str(&value.to_string()) of the f64 read
de_decimal(sx) == sx.val

ser_money(m) == Sx_vector(<<Sx_symbol(m.currency), ser_decimal(m.amount)>>)

de_money(sx) == Money_new(sx.items[1].val, de_decimal(sx.items[2]))

ser_rate(r) ==
    Sx_list(<<Sx_cons(Sx_symbol("amount"), ser_money(r.amount)),
              Sx_cons(Sx_symbol("per"), Sx_symbol(r.per))>>)

de_rate(sx) ==
    Rate_new(de_money(Sx_field(sx, "amount")), Sx_field(sx, "per").val)

ser_tax_rate(t) == Sx_vector(<<Sx_string(t.name), ser_decimal(t.rate)>>)

de_tax_rate(sx) == [name |-> sx.items[1].val, rate |-> de_decimal(sx.items[2])]

ser_tax_rates(ts) == Sx_list([i \in DOMAIN ts |-> ser_tax_rate(ts[i])])

de_tax_rates(sx) == [i \in DOMAIN sx.items |-> de_tax_rate(sx.items[i])]

ser_period(p) ==
    Sx_list(<<Sx_cons(Sx_symbol("from"), ser_date(p.from)),
              Sx_cons(Sx_symbol("until"), ser_date(p.until))>>)

de_period(sx) ==
    Period_new(de_date(Sx_field(sx, "from")), de_date(Sx_field(sx, "until")))

ser_item(it) ==
    Sx_list(<<Sx_cons(Sx_symbol("name"), Sx_string(it.name)),
              Sx_cons(Sx_symbol("rate"), ser_rate(it.rate)),
              Sx_cons(Sx_symbol("period"), ser_period(it.period)),
              Sx_cons(Sx_symbol("quantity"), ser_decimal(it.quantity)),
              Sx_cons(Sx_symbol("amount"), ser_money(it.amount))>>)

de_item(sx) ==
    [name |-> Sx_field(sx, "name").val,
     rate |-> de_rate(Sx_field(sx, "rate")),
     period |-> de_period(Sx_field(sx, "period")),
     quantity |-> de_decimal(Sx_field(sx, "quantity")),
     amount |-> de_money(Sx_field(sx, "amount"))]

\* Option<NaiveDate>: None is the empty list, Some(d) the list of d
ser_paid(paid) == IF paid.some THEN Sx_list(<<ser_date(paid.val)>>) ELSE Sx_list(<<>>)

de_paid(sx) == IF sx.items = <<>> THEN None ELSE Some(de_date(sx.items[1]))

\* Invoice, its date left out
ser_invoice(inv) ==
    Sx_list(<<Sx_cons(Sx_symbol("number"), Sx_int(inv.number)),
              Sx_cons(Sx_symbol("items"),
                      Sx_list([i \in DOMAIN inv.items |-> ser_item(inv.items[i])])),
              Sx_cons(Sx_symbol("tax_rates"), ser_tax_rates(inv.tax_rates)),
              Sx_cons(Sx_symbol("paid"), ser_paid(inv.paid))>>)

de_invoice(sx) ==
    [number |-> Sx_field(sx, "number").val,
     items |-> LET items == Sx_field(sx, "items").items
               IN  [i \in DOMAIN items |-> de_item(items[i])],
     tax_rates |-> de_tax_rates(Sx_field(sx, "tax_rates")),
     paid |-> de_paid(Sx_field(sx, "paid"))]

\* Update: Rate is a variant of clients.rs, ServiceRate one of run.rs
ser_update(u) ==
    CASE u.type = "Address" -> Sx_cons(Sx_symbol("Address"), Sx_string(u.addr))
      [] u.type = "Name" -> Sx_cons(Sx_symbol("Name"), Sx_string(u.name))
      [] u.type = "Rate" ->
            Sx_list(<<Sx_symbol("Rate"), ser_date(u.effective), ser_rate(u.rate)>>)
      [] u.type = "ServiceRate" ->
            Sx_list(<<Sx_symbol("ServiceRate"), Sx_string(u.service),
                      ser_date(u.effective), ser_rate(u.rate)>>)
      [] u.type = "Invoiced" -> Sx_cons(Sx_symbol("Invoiced"), ser_invoice(u.invoice))
      [] u.type = "Paid" ->
            Sx_list(<<Sx_symbol("Paid"), Sx_int(u.num), ser_date(u.when)>>)
      [] u.type = "Taxes" ->
            Sx_list(<<Sx_symbol("Taxes"), ser_date(u.effective),
                      ser_tax_rates(u.taxes)>>)

\* the variants of Update that the Event type of a file of the source has
Generations == {"clients.rs", "run.rs"}

Update_variants(gen) ==
    {"Address", "Name", "Invoiced", "Paid", "Taxes"}
    \cup (IF gen = "clients.rs" THEN {"Rate"} ELSE {"ServiceRate"})

\* the number of parts after the name of a variant of Update
Update_arity(variant) ==
    CASE variant \in {"Address", "Name"} -> 1
      [] variant \in {"Rate", "Paid", "Taxes"} -> 2
      [] variant = "ServiceRate" -> 3
      [] variant = "Invoiced" -> 4

\* the S-expression is a variant of the Update of that file
is_update(gen, sx) ==
    LET head == Sx_car(sx)
    IN  /\ sx.sx \in {"list", "cons"}
        /\ sx.sx = "list" => sx.items # <<>>
        /\ head.sx = "symbol"
        /\ head.val \in Update_variants(gen)
        /\ IF sx.sx = "list"
           THEN Len(sx.items) = Update_arity(head.val) + 1
           ELSE Update_arity(head.val) = 1

de_update(sx) ==
    LET variant == Sx_car(sx).val
    IN  CASE variant = "Address" -> [type |-> "Address", addr |-> sx.cdr.val]
          [] variant = "Name" -> [type |-> "Name", name |-> sx.cdr.val]
          [] variant = "Rate" ->
                [type |-> "Rate", effective |-> de_date(sx.items[2]),
                 rate |-> de_rate(sx.items[3])]
          [] variant = "ServiceRate" ->
                [type |-> "ServiceRate", service |-> sx.items[2].val,
                 effective |-> de_date(sx.items[3]), rate |-> de_rate(sx.items[4])]
          [] variant = "Invoiced" ->
                [type |-> "Invoiced", invoice |-> de_invoice(Sx_cdr(sx))]
          [] variant = "Paid" ->
                [type |-> "Paid", num |-> sx.items[2].val,
                 when |-> de_date(sx.items[3])]
          [] variant = "Taxes" ->
                [type |-> "Taxes", effective |-> de_date(sx.items[2]),
                 taxes |-> de_tax_rates(sx.items[3])]

ser_change(change) ==
    CASE change.type = "Added" ->
            Sx_list(<<Sx_symbol("Added"),
                      Sx_cons(Sx_symbol("name"), Sx_string(change.name)),
                      Sx_cons(Sx_symbol("address"), Sx_string(change.address))>>)
      [] change.type = "Updated" ->
            Sx_cons(Sx_symbol("Updated"), ser_update(change.update))
      [] change.type = "Removed" -> Sx_symbol("Removed")

is_change(gen, sx) ==
    \/ sx = Sx_symbol("Removed")
    \/ /\ sx.sx \in {"list", "cons"}
       /\ sx.sx = "list" => sx.items # <<>>
       /\ \/ /\ Sx_car(sx) = Sx_symbol("Added")
             /\ sx.sx = "list"
             /\ Len(sx.items) = 3
          \/ /\ Sx_car(sx) = Sx_symbol("Updated")
             /\ is_update(gen, Sx_cdr(sx))

de_change(sx) ==
    IF sx = Sx_symbol("Removed") THEN [type |-> "Removed"]
    ELSE IF Sx_car(sx) = Sx_symbol("Added")
    THEN [type |-> "Added", name |-> Sx_field(Sx_cdr(sx), "name").val,
          address |-> Sx_field(Sx_cdr(sx), "address").val]
    ELSE [type |-> "Updated", update |-> de_update(Sx_cdr(sx))]

\* Event(key, timestamp, change)
ser_event(e) == Sx_vector(<<Sx_string(e.key), ser_change(e.change)>>)

is_event(gen, sx) ==
    /\ sx.sx = "vector"
    /\ Len(sx.items) = 2
    /\ sx.items[1].sx = "string"
    /\ is_change(gen, sx.items[2])

de_event(sx) == [key |-> sx.items[1].val, change |-> de_change(sx.items[2])]

\* serde_lexpr::to_writer(f, &events)
to_writer(log) == Sx_list([i \in DOMAIN log |-> ser_event(log[i])])

\* serde_lexpr::from_reader(reader) into the Vec<Event> of the file that
\* reads: the events, or the error of serde_lexpr
from_reader(gen, sx) ==
    IF sx.sx = "list" /\ \A i \in DOMAIN sx.items : is_event(gen, sx.items[i])
    THEN Ok_of([i \in DOMAIN sx.items |-> de_event(sx.items[i])])
    ELSE Err([kind |-> "Format"])

\* ------------------------------------------------- writing and reading a log
CodecKey == "acme"

CodecRate == Rate_new(Money_new("USD", Decimal_from(1000)), "Month")

\* January 2023, and its second and third weeks
CodecPeriods ==
    { Period_new(from_ymd(2023, 1, 1), from_ymd(2023, 1, 31)),
      Period_new(from_ymd(2023, 1, 9), from_ymd(2023, 1, 20)) }

CodecInvoices ==
    { Invoice_of(1, <<made.val>>, tax_rates) :
        made \in { m \in UNION { InvoiceItem_new("consulting", CodecRate, p) :
                                    p \in CodecPeriods } : m.kind = "value" },
        tax_rates \in TaxLists }

CodecUpdates ==
    [type : {"Address"}, addr : {"Some Place"}]
    \cup [type : {"Name"}, name : {"Innotech"}]
    \cup [type : {"Rate"}, effective : {1}, rate : {CodecRate}]
    \cup [type : {"ServiceRate"}, service : ServiceNames, effective : {1},
          rate : RunRates]
    \cup [type : {"Invoiced"}, invoice : CodecInvoices]
    \cup [type : {"Paid"}, num : {1}, when : Dates]
    \cup [type : {"Taxes"}, effective : {1}, taxes : TaxLists]

CodecChanges ==
    [type : {"Added"}, name : {"Acme"}, address : {"123 St"}]
    \cup [type : {"Updated"}, update : CodecUpdates]
    \cup [type : {"Removed"}]

CodecEvents == [key : {CodecKey}, change : CodecChanges]

\* the log is one that run.rs, or clients.rs, can have written
written_by(gen, log) ==
    \A i \in DOMAIN log :
        log[i].change.type = "Updated"
            => log[i].change.update.type \in Update_variants(gen)

\* a program holds a log
InitCodec ==
    /\ folded = 0
    /\ event = None
    /\ before = Clients_new
    /\ clients = Clients_new
    /\ dropped = None
    /\ accepted = [k \in Keys |-> <<>>]
    /\ NoItem
    /\ NoMoney
    /\ NoTotal
    /\ files = <<>>
    /\ pc = "idle"
    /\ cmd = None
    /\ events \in SeqsUpTo(CodecEvents, MaxRun)
    /\ loaded = <<>>
    /\ produced = None
    /\ result = None
    /\ NoRest

\* run_cmd_with_path, the end: serde_lexpr::to_writer(f, &events)
ToWriter ==
    /\ encoded = None
    /\ encoded' = Some(to_writer(events))
    /\ UNCHANGED <<decoded, statuses>>
    /\ UNCHANGED fold_vars
    /\ UNCHANGED billing_vars
    /\ UNCHANGED <<files, pc, cmd, events, loaded, produced, result>>

\* run_cmd_with_path, the start, of run.rs or of clients.rs, the file being
\* there: serde_lexpr::from_reader(reader)?
FromReader ==
    /\ encoded.some
    /\ decoded = None
    /\ \E gen \in Generations :
        decoded' = Some([by |-> gen, events |-> from_reader(gen, encoded.val)])
    /\ UNCHANGED <<encoded, statuses>>
    /\ UNCHANGED fold_vars
    /\ UNCHANGED billing_vars
    /\ UNCHANGED <<files, pc, cmd, events, loaded, produced, result>>

NextCodec == ToWriter \/ FromReader

SpecCodec == InitCodec /\ [][NextCodec]_vars

\* ---------------------------------------------------------------- helpers
\* the event applied last is an update of kind t
LastUpdateIs(t) ==
    /\ event.some
    /\ event.val.change.type = "Updated"
    /\ event.val.change.update.type = t

\* the client that update was called on, when the key was live
Target == before[event.val.key]

Outcome == clients[event.val.key]

Called == event.val.key \in DOMAIN before

Rejected(kind) == dropped.some /\ ~dropped.val.ok /\ dropped.val.err.kind = kind

\* the dates a lookup is asked for: every stored date, one before, one after
QueryDates == 0..(MaxDate + 1)

\* the numbers of a sequence are pairwise distinct
Distinct(s) == \A i, j \in DOMAIN s : i # j => s[i] # s[j]

RECURSIVE Flatten(_)
Flatten(ss) == IF ss = <<>> THEN <<>> ELSE Head(ss) \o Flatten(Tail(ss))

\* ------------------------------------------------------------------ claims
\* C1: an Invoiced update whose number is not next_invoice_num() fails with
\* the out-of-sequence error; with the next number it succeeds, the invoice
\* is stored under that number and next_invoice_num() has grown by exactly 1.
C1_InvoicedInSequence ==
    (LastUpdateIs("Invoiced") /\ Called) =>
        LET inv == event.val.change.update.invoice
        IN  IF inv.number # next_invoice_num(Target)
            THEN Rejected("InvoiceOutOfSequence")
            ELSE /\ dropped = Some(Ok)
                 /\ BTreeMap_get(Outcome.invoices, inv.number) = Some(inv)
                 /\ next_invoice_num(Outcome) = next_invoice_num(Target) + 1

\* a client that holds invoice 1 rejects an Invoiced update numbered 1 again
C1_Witness ==
    /\ LastUpdateIs("Invoiced") /\ Called
    /\ BTreeMap_len(Target.invoices) = 1
    /\ event.val.change.update.invoice.number = 1
    /\ Rejected("InvoiceOutOfSequence")

\* C2: in every registry the fold reaches, the invoice numbers of each live
\* client are exactly 1..n for its n invoices, and each invoice is stored
\* under the key equal to its own number.
C2_ContiguousNumbers ==
    \A k \in DOMAIN clients :
        LET invoices == clients[k].invoices
        IN  /\ BTreeMap_keys(invoices) = 1..BTreeMap_len(invoices)
            /\ \A i \in DOMAIN invoices : invoices[i][2].number = invoices[i][1]

C2_Witness ==
    \E k \in DOMAIN clients :
        /\ BTreeMap_len(clients[k].invoices) = 2
        /\ Rejected("InvoiceOutOfSequence")

\* C3: a Paid update is accepted exactly when the invoice exists and is
\* unpaid, and then the invoice's paid date is the date given; it is rejected
\* as already paid when the invoice is paid, and rejected as paid out of
\* sequence when no invoice has the number.
C3_PaidValidation ==
    (LastUpdateIs("Paid") /\ Called) =>
        LET u == event.val.change.update
            old == BTreeMap_get(Target.invoices, u.num)
            new == BTreeMap_get(Outcome.invoices, u.num)
        IN  /\ dropped.some
            /\ dropped.val.ok <=> (old.some /\ ~old.val.paid.some)
            /\ dropped.val.ok => (new.some /\ new.val.paid = Some(u.when))
            /\ (old.some /\ old.val.paid.some) => Rejected("AlreadyPaid")
            /\ ~old.some => Rejected("PaidOutOfSequence")

\* an invoice paid earlier is marked paid again, with another date
C3_Witness ==
    /\ LastUpdateIs("Paid") /\ Called
    /\ Rejected("AlreadyPaid")
    /\ BTreeMap_get(Target.invoices, event.val.change.update.num).val.paid
         # Some(event.val.change.update.when)

\* C4: once an invoice of a client is paid on d, it is still paid on d after
\* every event folded next, unless that event adds the client's key again or
\* removes it: no update returns it to unpaid or changes the date.
C4_PaidIsTerminal ==
    event.some =>
        \A k \in DOMAIN before :
            (event.val.key = k => event.val.change.type = "Updated") =>
                /\ k \in DOMAIN clients
                /\ \A i \in DOMAIN before[k].invoices :
                    LET old == before[k].invoices[i][2]
                    IN  old.paid.some =>
                            BTreeMap_get(clients[k].invoices, old.number) = Some(old)

\* a paid invoice meets an Invoiced update that carries its own number
C4_Witness ==
    /\ LastUpdateIs("Invoiced") /\ Called
    /\ LET old == BTreeMap_get(Target.invoices,
                               event.val.change.update.invoice.number)
       IN  old.some /\ old.val.paid.some

\* C5 as stated: no two Invoiced events accepted for the same client key
\* carry the same number, also when the key is added again in between.
C5_NoReuseForKey ==
    \A k \in Keys : Distinct(Flatten(accepted[k]))

\* C5 as amended: no two Invoiced events accepted for the same client key
\* between two consecutive Added events of that key carry the same number.
C5_NoReuseForClient ==
    \A k \in Keys : \A i \in DOMAIN accepted[k] : Distinct(accepted[k][i])

\* a key added twice, with invoices accepted after each Added event
C5_Witness ==
    \E k \in Keys :
        /\ Len(accepted[k]) = 2
        /\ accepted[k][1] # <<>>
        /\ accepted[k][2] # <<>>

\* C6: as_of(d) is the value whose effective date is the greatest one at or
\* before d, and None when no entry is at or before d; an insert at date D
\* answers every lookup from D up to the next later date and leaves the
\* lookups before D as they were.
C6_AsOfGreatestAtOrBefore ==
    /\ \A k \in DOMAIN clients : \A d \in QueryDates :
        LET c == clients[k]
            m == c.rates
            ds == {m[i][1] : i \in DOMAIN m} \cap 0..d
        IN  IF ds = {}
            THEN rate_as_of(c, d) = None /\ as_of([history |-> m], d) = None
            ELSE \E i \in DOMAIN m :
                    /\ m[i][1] \in ds
                    /\ \A y \in ds : y <= m[i][1]
                    /\ rate_as_of(c, d) = Some(m[i][2])
                    /\ as_of([history |-> m], d) = Some(m[i][2])
    /\ (LastUpdateIs("Rate") /\ Called) =>
        LET u == event.val.change.update
            later == {x \in BTreeMap_keys(Target.rates) : x > u.effective}
        IN  \A d \in QueryDates :
                rate_as_of(Outcome, d) =
                    IF d >= u.effective /\ \A x \in later : d < x
                    THEN Some(u.rate)
                    ELSE rate_as_of(Target, d)

\* a rate inserted at date 1 and then another rate at date 2
C6_Witness ==
    /\ LastUpdateIs("Rate") /\ Called
    /\ event.val.change.update.effective = 2
    /\ BTreeMap_keys(Target.rates) = {1}
    /\ rate_as_of(Outcome, 0) = None
    /\ rate_as_of(Outcome, 1) = rate_as_of(Target, 2)
    /\ rate_as_of(Outcome, 2) = Some(event.val.change.update.rate)
    /\ rate_as_of(Outcome, 2) # rate_as_of(Outcome, 1)

\* C7: folding an Added event puts at its key a brand-new client with the
\* name and address of the event and no rates, invoices or taxes, also when
\* the key held a client; the fold raises no error.
C7_AddedIsBrandNew ==
    (event.some /\ event.val.change.type = "Added") =>
        /\ event.val.key \in DOMAIN clients
        /\ Outcome = [key |-> event.val.key,
                      name |-> event.val.change.name,
                      address |-> event.val.change.address,
                      rates |-> <<>>, invoices |-> <<>>, taxes |-> <<>>,
                      past_services |-> {}]
        /\ dropped = None
        /\ from_events_result.ok

\* a client with another name, a rate and an invoice is overwritten
C7_Witness ==
    /\ event.some /\ event.val.change.type = "Added"
    /\ Called
    /\ Target.invoices # <<>>
    /\ Target.rates # <<>>
    /\ Target.name # event.val.change.name

\* C8: folding an Updated event whose key is absent from the registry drops
\* the update: no error, no client created, the registry unchanged.
C8_UpdateOfAbsentKeyDropped ==
    (event.some /\ event.val.change.type = "Updated" /\ ~Called) =>
        /\ clients = before
        /\ dropped = None
        /\ from_events_result.ok

\* an Invoiced update for a key that was added and removed earlier
C8_Witness ==
    /\ LastUpdateIs("Invoiced") /\ ~Called
    /\ accepted[event.val.key] # <<>>
    /\ event.val.change.update.invoice.number = 1

\* C9: folding a Removed event deletes its key from the registry, where a
\* lookup of the key then fails with the not-found error; an absent key
\* stays absent until an Added event for it.
C9_RemovedIsAbsent ==
    event.some =>
        /\ event.val.change.type = "Removed" =>
            /\ event.val.key \notin DOMAIN clients
            /\ client(clients, event.val.key) =
                 Err([kind |-> "NotFound", key |-> event.val.key])
        /\ \A k \in DOMAIN clients \ DOMAIN before :
            event.val.key = k /\ event.val.change.type = "Added"

\* a client with an invoice is removed
C9_Witness ==
    /\ event.some /\ event.val.change.type = "Removed"
    /\ Called
    /\ Target.invoices # <<>>
    /\ ~client(clients, event.val.key).ok

\* C10: an Updated event that the client rejects makes from_events fail with
\* that error.
C10_RejectionSurfaces ==
    (dropped.some /\ ~dropped.val.ok) => from_events_result = dropped.val

\* ---------------------------------------------------- claims on commands
\* the list the command loaded, and the registry folded from it
LoadedLog ==
    IF loaded[history_path].exists THEN loaded[history_path].events ELSE <<>>

Registry == run_from_events(LoadedLog).val

\* the command was run on the loaded log and returned r
Returned(r) == produced = Some(r)

Persisting == pc \in {"create", "write", "rename"}

Mutating ==
    {"AddClient", "AddService", "Invoice", "SetRate", "SetTaxes",
     "SetAddress", "SetName", "MarkPaid"}

\* C11: when a command has ended the history file is as it was loaded, or
\* holds the list loaded followed by exactly one more event.
C11_AppendOnly ==
    pc = "done" =>
        LET now == files[history_path]
        IN  \/ now = loaded[history_path]
            \/ /\ now.exists /\ now.complete
               /\ Len(now.events) = Len(LoadedLog) + 1
               /\ SubSeq(now.events, 1, Len(LoadedLog)) = LoadedLog

\* a command has added an event to a log of two or more
C11_Witness ==
    /\ pc = "done"
    /\ result = Some(Ok)
    /\ Len(LoadedLog) >= 2
    /\ files[history_path].exists
    /\ Len(files[history_path].events) = Len(LoadedLog) + 1

\* C12: a command that fails leaves the history file as it was loaded, and
\* the persist step is entered only after run_cmd returned an event that the
\* registry folded from the loaded log accepts.
C12_FailureLeavesLog ==
    /\ (pc = "done" /\ ~result.val.ok) =>
            files[history_path] = loaded[history_path]
    /\ Persisting =>
            /\ produced.some /\ produced.val.ok /\ produced.val.val.some
            /\ run_apply_event(Registry, produced.val.val.val).result.ok

\* a mark-paid command failed when its Paid event was applied
C12_Witness ==
    /\ pc = "done"
    /\ cmd.val.type = "MarkPaid"
    /\ ~result.val.ok
    /\ result.val.err.kind = "AlreadyPaid"
    /\ files[history_path] = loaded[history_path]

\* C13: a mutating command whose confirmation is declined returns no event
\* and returns successfully, and no file is created or written.
C13_DeclineIsNoEvent ==
    (/\ cmd.some /\ cmd.val.type \in Mutating /\ cmd.val.answer = "decline"
     /\ produced.some /\ produced.val.ok) =>
        /\ produced.val = Ok_of(None)
        /\ pc = "done"
        /\ result = Some(Ok)
        /\ files = loaded

\* the payment of an invoice was declined
C13_Witness ==
    /\ cmd.some /\ cmd.val.type = "MarkPaid"
    /\ cmd.val.answer = "decline"
    /\ Returned(Ok_of(None))
    /\ pc = "done"

\* C14: at every step of a command, the persist step and its failures
\* included, the history file is the complete file loaded or the complete
\* new list.
C14_OldOrNewList ==
    cmd.some =>
        \/ files[history_path] = loaded[history_path]
        \/ /\ produced.some /\ produced.val.ok /\ produced.val.val.some
           /\ files[history_path] = File(events)

\* the write of the new list failed part-way and left the history file alone
C14_Witness ==
    /\ pc = "done"
    /\ files[updated_path(history_path)] = Partial
    /\ result = Some(Err([kind |-> "Io"]))
    /\ Len(events) > Len(LoadedLog)
    /\ files[history_path] = loaded[history_path]

\* the client key the command names, if it names one
NamesClient == cmd.some /\ produced.some /\ "client" \in DOMAIN cmd.val

\* C15: a command that names a client key absent from the registry fails
\* with not-found for that key, and so returns no event.
C15_AbsentKeyNotFound ==
    (NamesClient /\ cmd.val.client \notin DOMAIN Registry) =>
        Returned(Err([kind |-> "NotFound", key |-> cmd.val.client]))

\* C16: the remove command for a client of the registry returns a Removed
\* event for its key.
C16_RemoveProducesRemoved ==
    (NamesClient /\ cmd.val.type = "Remove"
     /\ cmd.val.client \in DOMAIN Registry) =>
        Returned(Ok_of(Some(Event_new(cmd.val.client, [type |-> "Removed"]))))

\* the rates of the service of an item, none effective at its period start
NoRateAt(c, it) ==
    /\ it.service \in DOMAIN c.services
    /\ \A i \in DOMAIN c.services[it.service].rates.history :
            c.services[it.service].rates.history[i][1] > it.period.from

\* the items of the invoice command running, the first one without a rate
FirstNoRate(c) ==
    LET its == cmd.val.items
    IN  IF \E i \in DOMAIN its : NoRateAt(c, its[i])
        THEN Some(CHOOSE i \in DOMAIN its :
                    /\ NoRateAt(c, its[i])
                    /\ \A j \in 1..(i - 1) : ~NoRateAt(c, its[j]))
        ELSE None

\* C17: an invoice command with an item whose service has no rate effective
\* at or before the item's period start fails with no-effective-rate naming
\* the client key and that date, whatever items came before, and no event is
\* written.
C17_NoRateFailsInvoice ==
    (/\ cmd.some /\ produced.some /\ cmd.val.type = "Invoice"
     /\ cmd.val.answer # "error"
     /\ cmd.val.client \in DOMAIN Registry
     /\ FirstNoRate(Registry[cmd.val.client]).some) =>
        LET it == cmd.val.items[FirstNoRate(Registry[cmd.val.client]).val]
        IN  /\ Returned(Err([kind |-> "NoRate", key |-> cmd.val.client,
                             effective |-> it.period.from]))
            /\ pc = "done"
            /\ result = produced
            /\ files = loaded

\* the second item of an invoice has no rate, the first has one
C17_Witness ==
    /\ cmd.some /\ produced.some /\ cmd.val.type = "Invoice"
    /\ cmd.val.client \in DOMAIN Registry
    /\ FirstNoRate(Registry[cmd.val.client]) = Some(2)
    /\ ~produced.val.ok
    /\ produced.val.err.kind = "NoRate"

\* ------------------------------------------------- claims on invoice items
\* the item the invoice command built, once it has
Built == item # None /\ item.val.kind = "value"

BuiltFor(per) == item # None /\ rate.val.per = per

WorkingDaysIn(a, b) ==
    Cardinality({ d \in a..b : num_days_from_monday(d) \notin {5, 6} })

FirstOfMonth(d) == from_ymd(year(d), month(d), 1)

LastOfMonth(d) == from_ymd(year(d), month(d), days_in_month(year(d), month(d)))

MondayOf(d) == d - num_days_from_monday(d)

SundayOf(d) == MondayOf(d) + 6

\* C18: an item of a service billed per Hour has the caller's billable hours
\* as its quantity and the hourly rate times those hours as its amount.
C18_HourlyQuantitySupplied ==
    BuiltFor("Hour") =>
        /\ item.val.kind = "value"
        /\ item.val.val.quantity = hours.val
        /\ item.val.val.amount = Money_mul(rate.val.amount, hours.val)

\* 12 * years + (working days of p / working days of full) * months
MonthsBy(p, full, months) ==
    Decimal_add(Decimal_from(12 * (year(p.until) - year(p.from))),
                Decimal_mul(Decimal_norm(WorkingDaysIn(p.from, p.until),
                                         WorkingDaysIn(full.from, full.until)),
                            Decimal_from(months)))

MonthCount(p) == month(p.until) - month(p.from) + 1

\* C19 as stated: the quantity of a Month item is 12 * (year(until) -
\* year(from)) + (working days of the period / working days of the calendar
\* month containing from) * (month(until) - month(from) + 1).
C19_MonthOfFromAlone ==
    BuiltFor("Month") =>
        LET p == period.val
            full == Period_new(FirstOfMonth(p.from), LastOfMonth(p.from))
        IN  /\ item.val.kind = "value"
            /\ item.val.val.quantity = MonthsBy(p, full, MonthCount(p))

\* C19 as amended: the same with the working days of the first day of the
\* month of from to the last day of the month of until as the divisor, when
\* month(until) >= month(from); when it is smaller the subtraction underflows:
\* the item is not built (panic) or the month count is taken modulo 2^32.
C19_MonthsOverBothMonths ==
    BuiltFor("Month") =>
        LET p == period.val
            full == Period_new(FirstOfMonth(p.from), LastOfMonth(p.until))
            ratio == Decimal_norm(WorkingDaysIn(p.from, p.until),
                                  WorkingDaysIn(full.from, full.until))
        IN  IF month(p.until) >= month(p.from)
            THEN /\ item.val.kind = "value"
                 /\ item.val.val.quantity = MonthsBy(p, full, MonthCount(p))
            ELSE \/ item.val = Panic
                 \/ /\ MonthCount(p) = 0
                    /\ item.val.kind = "value"
                    /\ item.val.val.quantity = MonthsBy(p, full, 0)
                 \/ /\ MonthCount(p) < 0
                    /\ item.val = Wrapped(MonthsBy(p, full, MonthCount(p)), ratio)

\* a Month item over part of two calendar months of one year
C19_Witness ==
    /\ BuiltFor("Month")
    /\ Built
    /\ month(period.val.until) > month(period.val.from)
    /\ item.val.val.quantity.d # 1

\* the Monday-to-Sunday weeks the period touches
WeekBuckets(p) == ((MondayOf(p.until) - MondayOf(p.from)) \div 7) + 1

\* the dates from, from + 7, from + 14, ... at or before until
WeekStrides(p) == ((p.until - p.from) \div 7) + 1

WithinWeekend(p) ==
    /\ p.until - p.from <= 1
    /\ \A d \in p.from..p.until : num_days_from_monday(d) \in {5, 6}

\* C21: the quantity of a Day item is the number of Monday-to-Friday dates of
\* from ..= until, and 0, without a failure, for a period within one weekend.
C21_DayCountsWeekdays ==
    BuiltFor("Day") =>
        LET p == period.val
        IN  /\ item.val.kind = "value"
            /\ item.val.val.quantity = Decimal_from(WorkingDaysIn(p.from, p.until))
            /\ WithinWeekend(p) => item.val.val.quantity = Decimal_from(0)

\* a Day item for one Saturday
C21_Witness ==
    /\ BuiltFor("Day")
    /\ Built
    /\ period.val.from = period.val.until
    /\ num_days_from_monday(period.val.from) = 5
    /\ item.val.val.quantity = Decimal_from(0)

\* the period is one whole calendar month
IsFullMonth(p) ==
    /\ p.from = FirstOfMonth(p.from)
    /\ p.until = LastOfMonth(p.from)

\* C22: the quantity of a Month item for the first to the last day of one
\* calendar month is exactly 1.
C22_FullMonthIsOne ==
    (BuiltFor("Month") /\ IsFullMonth(period.val)) =>
        /\ item.val.kind = "value"
        /\ item.val.val.quantity = Decimal_from(1)

\* a Month item for the February of a leap year
C22_Witness ==
    /\ BuiltFor("Month")
    /\ Built
    /\ IsFullMonth(period.val)
    /\ month(period.val.from) = 2
    /\ is_leap_year(year(period.val.from))
    /\ item.val.val.quantity = Decimal_from(1)

\* ---------------------------------------------- claims on money and totals
\* the number of whole cents nearest to the non-negative x, the even one of
\* the two when x lies halfway between them
HalfEvenCents(x) ==
    LET lo == (x.n * 100) \div x.d
        below == x.n * 100 - lo * x.d
        above == (lo + 1) * x.d - x.n * 100
    IN  IF below < above THEN lo
        ELSE IF above < below THEN lo + 1
        ELSE IF lo % 2 = 0 THEN lo ELSE lo + 1

Cents(c) == Decimal_norm(c, 100)

RECURSIVE SumOf(_)
SumOf(q) == IF q = <<>> THEN Decimal_from(0) ELSE Decimal_add(Head(q), SumOf(Tail(q)))

\* 1000 USD per Month over the whole of December 2023, taxed at 5%
ExampleInvoice ==
    Invoice_of(1,
        <<[name |-> "consulting",
           rate |-> Rate_new(Money_new("USD", Decimal_from(1000)), "Month"),
           period |-> Period_new(from_ymd(2023, 12, 1), from_ymd(2023, 12, 31)),
           quantity |-> Decimal_from(1),
           amount |-> Money_new("USD", Decimal_from(1000))]>>,
        <<TaxRate_new("GST", 5)>>)

\* C23: the total of an invoice with items has the sum of the item amounts as
\* subtotal, for each tax rate in order the subtotal times the rate rounded
\* half-to-even to cents, and the subtotal plus those taxes as total; the
\* invoice of 1000 USD per Month over one whole month at 5% has subtotal
\* 1000.00, tax 50.00 and total 1050.00.
C23_CalculateTotals ==
    (total.some /\ billed.val.items # <<>>) =>
        LET inv == billed.val
            sum == SumOf([i \in DOMAIN inv.items |-> inv.items[i].amount.amount])
            tax(i) == Cents(HalfEvenCents(Decimal_mul(sum, inv.tax_rates[i].rate)))
        IN  /\ total.val.kind = "value"
            /\ total.val.val.subtotal.amount = sum
            /\ DOMAIN total.val.val.taxes = DOMAIN inv.tax_rates
            /\ \A i \in DOMAIN inv.tax_rates :
                    /\ total.val.val.taxes[i][1] = inv.tax_rates[i]
                    /\ total.val.val.taxes[i][2].amount = tax(i)
            /\ total.val.val.total.amount =
                    Decimal_add(sum, SumOf([i \in DOMAIN inv.tax_rates |-> tax(i)]))
            /\ inv = ExampleInvoice =>
                    total.val.val =
                        [subtotal |-> Money_new("USD", Decimal_from(1000)),
                         taxes |-> <<<<TaxRate_new("GST", 5),
                                       Money_new("USD", Decimal_from(50))>>>>,
                         total |-> Money_new("USD", Decimal_from(1050))]

\* the example invoice has been totalled
C23_Witness ==
    /\ billed = Some(ExampleInvoice)
    /\ total.some
    /\ total.val.kind = "value"
    /\ total.val.val.total = Money_new("USD", Decimal_from(1050))

\* the operator applied was * (rhs a Decimal) or + (rhs a Money)
Multiplied == out.some /\ rhs.val \in Factors

Summed == out.some /\ rhs.val \in Moneys

\* C24: a Money times a Decimal has the currency of the Money and the
\* product rounded half-to-even to cents as amount; 1000.00 USD times 0.05 is
\* 50.00 USD.
C24_MulRoundsHalfEven ==
    Multiplied =>
        /\ out.val.currency = lhs.val.currency
        /\ out.val.amount =
                Cents(HalfEvenCents(Decimal_mul(lhs.val.amount, rhs.val)))
        /\ (lhs.val = Money_new("USD", Decimal_from(1000))
             /\ rhs.val = Decimal_norm(5, 100)) =>
                out.val = Money_new("USD", Decimal_from(50))

\* 0.25 times 0.5 is halfway between 0.12 and 0.13 and comes to 0.12
C24_Witness ==
    /\ Multiplied
    /\ lhs.val.amount = Decimal_norm(25, 100)
    /\ rhs.val = Decimal_norm(1, 2)
    /\ out.val.amount = Decimal_norm(12, 100)

\* C25: the sum of two Money values of one currency is a Money of that
\* currency, and two Money values of different currencies have no sum.
C25_AddNeedsEqualCurrency ==
    Summed =>
        IF lhs.val.currency = rhs.val.currency
        THEN out.val = Money_new(lhs.val.currency,
                                 Decimal_add(lhs.val.amount, rhs.val.amount))
        ELSE "currency" \notin DOMAIN out.val

\* C26: the total of an invoice without items is a failure, not a total.
C26_NoItemsFails ==
    (total.some /\ billed.val.items = <<>>) => total.val = Panic

\* an invoice with a tax rate and no item has been totalled
C26_Witness ==
    /\ total = Some(Panic)
    /\ billed.val.items = <<>>
    /\ billed.val.tax_rates # <<>>

\* ------------------------------------------- claims on the fold of run.rs
\* the log folded is [Added(k), Updated(k, ServiceRate(s, D, r))]
AddedThenRate ==
    /\ Len(events) = 2
    /\ events[1].change.type = "Added"
    /\ events[2].change.type = "Updated"
    /\ events[2].change.update.type = "ServiceRate"
    /\ events[2].key = events[1].key

\* C27: the fold of [Added(k), Updated(k, ServiceRate(s, D, r))] returns a
\* registry where k has the name and address of the Added event and a
\* service named s whose rates give r as of every date from D on and nothing
\* as of a date before D.
C27_AddedThenServiceRate ==
    (result.some /\ AddedThenRate) =>
        LET k == events[1].key
            u == events[2].change.update
        IN  /\ result.val.ok
            /\ k \in DOMAIN result.val.val
            /\ result.val.val[k].name = events[1].change.name
            /\ result.val.val[k].address = events[1].change.address
            /\ service(result.val.val[k], u.service).some
            /\ service(result.val.val[k], u.service).val.name = u.service
            /\ \A d \in QueryDates :
                    as_of(service(result.val.val[k], u.service).val.rates, d)
                        = IF d >= u.effective THEN Some(u.rate) ELSE None

\* the fold of such a log has returned, the rate effective on the last date
C27_Witness ==
    /\ result.some
    /\ result.val.ok
    /\ AddedThenRate
    /\ events[2].change.update.effective = MaxDate
    /\ "consulting" \in service_names(result.val.val[events[1].key])

\* --------------------------------------------- claims on Client::update
\* the values the map holds for a date
ValuesAt(m, date) == { m[i][2] : i \in { j \in DOMAIN m : m[j][1] = date } }

\* the map holds at most one value per date
OnePerDate(m) == \A i, j \in DOMAIN m : i # j => m[i][1] # m[j][1]

\* C28: a Rate or Taxes update of a client is accepted whatever its
\* effective date; afterwards the lookup as of that date gives the new value,
\* which is the only value stored for the date, and no date has two values.
\* The same holds of Historical::insert into a Historical of those rates.
C28_RateAndTaxesAccepted ==
    /\ (LastUpdateIs("Rate") /\ Called) =>
        LET u == event.val.change.update
            h == Historical_insert([history |-> Target.rates], u.effective, u.rate)
        IN  /\ dropped = Some(Ok)
            /\ rate_as_of(Outcome, u.effective) = Some(u.rate)
            /\ ValuesAt(Outcome.rates, u.effective) = {u.rate}
            /\ OnePerDate(Outcome.rates)
            /\ as_of(h, u.effective) = Some(u.rate)
            /\ ValuesAt(h.history, u.effective) = {u.rate}
            /\ OnePerDate(h.history)
    /\ (LastUpdateIs("Taxes") /\ Called) =>
        LET u == event.val.change.update
        IN  /\ dropped = Some(Ok)
            /\ Client_taxes_as_of(Outcome, u.effective) = u.taxes
            /\ ValuesAt(Outcome.taxes, u.effective) = {u.taxes}
            /\ OnePerDate(Outcome.taxes)

\* a rate set for date 1, where another rate was stored, before a rate of
\* date 2
C28_Witness ==
    /\ LastUpdateIs("Rate") /\ Called
    /\ event.val.change.update.effective = 1
    /\ BTreeMap_keys(Target.rates) = {1, 2}
    /\ rate_as_of(Target, 1) # Some(event.val.change.update.rate)
    /\ rate_as_of(Outcome, 1) = Some(event.val.change.update.rate)
    /\ rate_as_of(Outcome, 2) = rate_as_of(Target, 2)

\* what a client holds besides its name and address
Rest(c) == [f \in DOMAIN c \ {"name", "address"} |-> c[f]]

\* C29: an Address or Name update of a client succeeds and replaces that
\* field by the new value; the key, the other of the two fields, the rates,
\* taxes and invoices stay as they were.
C29_AddressAndNameReplace ==
    /\ (LastUpdateIs("Address") /\ Called) =>
        /\ dropped = Some(Ok)
        /\ Outcome.address = event.val.change.update.addr
        /\ Outcome.name = Target.name
        /\ Rest(Outcome) = Rest(Target)
    /\ (LastUpdateIs("Name") /\ Called) =>
        /\ dropped = Some(Ok)
        /\ Outcome.name = event.val.change.update.name
        /\ Outcome.address = Target.address
        /\ Rest(Outcome) = Rest(Target)

\* a new address for a client with a rate and an invoice
C29_Witness ==
    /\ LastUpdateIs("Address") /\ Called
    /\ Target.address # event.val.change.update.addr
    /\ Outcome.address = event.val.change.update.addr
    /\ Target.rates # <<>>
    /\ Target.invoices # <<>>

\* C30: the client stored under a key of the registry has that key as its
\* key field, and an update leaves the key field as it was.
C30_KeyImmutable ==
    /\ \A k \in DOMAIN clients : clients[k].key = k
    /\ (event.some /\ event.val.change.type = "Updated" /\ Called) =>
            Outcome.key = Target.key

\* a client given a new address by the last event of a log of MaxEvents
\* events still has its key
C30_Witness ==
    /\ folded = MaxEvents
    /\ LastUpdateIs("Address") /\ Called
    /\ Target.address # Outcome.address
    /\ Outcome.key = event.val.key
    /\ DOMAIN clients = {event.val.key}

\* ------------------------------------------------------------------- C40
\* how many Invoiced events of the key the fold accepted before the last one
InvoicedBefore(key) ==
    Cardinality({ i \in 1..(folded - 1) :
                    /\ events[i].client_key = key
                    /\ events[i].change.type = "Invoiced" })

LastInvoiced == event.some /\ event.val.change.type = "Invoiced"

OutOfSequence ==
    result.some /\ ~result.val.ok /\ result.val.err.kind = "OutOfSequence"

\* C40: in the fold of invoices.rs an Invoiced event is rejected with
\* OutOfSequence exactly when its number is not the number of invoices
\* accepted for its client before plus 1, so the numbers 1, 2, ..., n in
\* that order are accepted for every n.
C40_RejectedIffNotNext ==
    (LastInvoiced /\ (result.some => ~result.val.ok))
        => (OutOfSequence
              <=> event.val.change.number # InvoicedBefore(event.val.client_key) + 1)

\* ------------------------------------------------------------------- C37
\* the period runs from the first day of a month to the last day of a month
IsWholeMonths(p) ==
    /\ p.from = FirstOfMonth(p.from)
    /\ p.until = LastOfMonth(p.until)
    /\ p.from <= p.until

\* the calendar months the period covers
MonthsCovered(p) ==
    (year(p.until) - year(p.from)) * 12 + month(p.until) - month(p.from) + 1

\* C37: the quantity of a Month item for N whole consecutive calendar months
\* is computed without underflow or overflow and is exactly N, also when the
\* month of `until` is smaller than the month of `from`.
C37_WholeMonthsIsN ==
    (BuiltFor("Month") /\ IsWholeMonths(period.val)) =>
        /\ item.val.kind = "value"
        /\ item.val.val.quantity = Decimal_from(MonthsCovered(period.val))

\* ------------------------------------------------------------------- C38
\* the Decimal is a whole number of cents
AtMost2dp(a) == (a.n * 100) % a.d = 0

\* C38: every item amount of an invoice, whether the item was built from a
\* period or from hours, and the subtotal, every tax amount and the total
\* that Invoice::calculate returns have at most 2 decimal places.
C38_AmountsInCents ==
    (total.some /\ total.val.kind = "value") =>
        /\ \A i \in DOMAIN billed.val.items :
                AtMost2dp(billed.val.items[i].amount.amount)
        /\ AtMost2dp(total.val.val.subtotal.amount)
        /\ \A i \in DOMAIN total.val.val.taxes :
                AtMost2dp(total.val.val.taxes[i][2].amount)
        /\ AtMost2dp(total.val.val.total.amount)

\* an item whose rate times quantity has more than 2 decimal places (0.333
\* per Hour for 7.5 hours) and a tax on a subtotal that has too
C38_Witness ==
    /\ total.some
    /\ total.val.kind = "value"
    /\ \E i \in DOMAIN billed.val.items :
            LET it == billed.val.items[i]
            IN  /\ it.rate.per = "Hour"
                /\ ~AtMost2dp(Decimal_mul(it.rate.amount.amount, it.quantity))
    /\ \E i \in DOMAIN total.val.val.taxes :
            ~AtMost2dp(Decimal_mul(total.val.val.subtotal.amount,
                                   total.val.val.taxes[i][1].rate))

\* ------------------------------------------------------------------- C34
\* the update call made for the last event returned an error
UpdateFailed == event.some /\ Called /\ dropped.some /\ ~dropped.val.ok

\* C34: an update the client rejects (an Invoiced out of sequence, a Paid for
\* a missing or an already paid invoice) leaves the client as it was: name,
\* address, rates, taxes, invoices and their paid dates.
C34_RejectedLeavesClient ==
    UpdateFailed =>
        /\ dropped.val.err.kind \in
                {"InvoiceOutOfSequence", "PaidOutOfSequence", "AlreadyPaid"}
        /\ Outcome = Target
        /\ clients = before

\* a Paid for an invoice the client does not have was rejected, the client
\* holding a rate and another invoice
C34_Witness ==
    /\ LastUpdateIs("Paid")
    /\ Rejected("PaidOutOfSequence")
    /\ Target.rates # BTreeMap_new
    /\ Target.invoices # BTreeMap_new
    /\ Outcome = Target

\* ------------------------------------------------------------------- C35
\* C35: applying an event of key k leaves every other key of the registry
\* alone: a client stored under another key is stored under it afterwards,
\* unchanged, and no other key appears, whether the event adds, updates or
\* removes.
C35_OtherKeysUntouched ==
    event.some =>
        \A k \in (DOMAIN before \cup DOMAIN clients) \ {event.val.key} :
            /\ k \in DOMAIN before
            /\ k \in DOMAIN clients
            /\ clients[k] = before[k]

\* the client of one key was removed while another key held a client with
\* an invoice
C35_Witness ==
    /\ event.some
    /\ event.val.change.type = "Removed"
    /\ event.val.key \in DOMAIN before
    /\ \E k \in DOMAIN clients :
            /\ k # event.val.key
            /\ clients[k].invoices # BTreeMap_new

Logs ==
    {events} \cup { files[p].events : p \in { q \in Paths : /\ files[q].exists
                                                           /\ files[q].complete } }

\* C36: an event a command returns for appending is accepted by the registry
\* folded from the log loaded, and every log the commands have built from an
\* empty one is folded by from_events without an error.
C36_LogsReplay ==
    /\ (produced.some /\ produced.val.ok /\ produced.val.val.some) =>
            run_apply_event(Registry, produced.val.val.val).result.ok
    /\ \A log \in Logs : run_from_events(log).ok

\* a log of four events with a paid invoice was built, and a mark-paid
\* command for that invoice has returned an error
C36_Witness ==
    /\ pc = "done"
    /\ cmd.val.type = "MarkPaid"
    /\ produced.some /\ ~produced.val.ok
    /\ produced.val.err.kind = "AlreadyPaid"
    /\ files[history_path].exists /\ files[history_path].complete
    /\ Len(files[history_path].events) >= 4
    /\ run_from_events(files[history_path].events).ok

\* ------------------------------------------------------------------- C39
\* the invoices of the Invoiced events of a log
InvoicesOf(log) ==
    { log[i].change.update.invoice :
        i \in { j \in DOMAIN log : /\ log[j].change.type = "Updated"
                                   /\ log[j].change.update.type = "Invoiced" } }

\* C39: every invoice the invoice command has recorded has at least one
\* item, so Invoice::calculate does not fail on an invoice of a log built by
\* commands.
C39_RecordedInvoiceHasItems ==
    \A log \in Logs : \A inv \in InvoicesOf(log) :
        /\ Len(inv.items) >= 1
        /\ Invoice_calculate(inv) # Panic

\* the history file holds an invoice of two items under a tax
C39_Witness ==
    /\ files[history_path].exists /\ files[history_path].complete
    /\ \E inv \in InvoicesOf(files[history_path].events) :
            /\ Len(inv.items) = 2
            /\ inv.tax_rates # <<>>
            /\ Invoice_calculate(inv).kind = "value"

\* C31: a log that run.rs wrote and read back folds to the same clients as
\* the log it wrote: from_events(decode(encode(events))) = from_events(events).
C31_RoundTripFolds ==
    (/\ decoded.some
     /\ decoded.val.by = "run.rs"
     /\ written_by("run.rs", events))
        => /\ decoded.val.events.ok
           /\ run_from_events(decoded.val.events.val) = run_from_events(events)

\* C32: loading fails, with a format error, only when no known encoding
\* parses the file; otherwise it gives what a decoder that parses it gives.
C32_TriesEachEncoding ==
    decoded.some =>
        LET parses == { gen \in Generations : from_reader(gen, encoded.val).ok }
        IN  IF parses = {} THEN decoded.val.events = Err([kind |-> "Format"])
            ELSE decoded.val.events \in
                    { from_reader(gen, encoded.val) : gen \in parses }

====
